---- MODULE Spec2Model ----
(***************************************************************************)
(* diskmon: one monitoring run.  get_monitored_disks collects a health     *)
(* result for every candidate volume (one unit per volume, each a blocking *)
(* probe raced against a timeout, joined by join_all), then main chooses   *)
(* an output mode and decides whether the consolidated report is sent.     *)
(*                                                                         *)
(* Option<T> is a sequence of length 0 (None) or 1 (Some).  The f64        *)
(* free_space_percent is kept as the exact fraction num/den, and compared  *)
(* with the threshold by cross-multiplication.                             *)
(***************************************************************************)
EXTENDS Integers, Sequences, FiniteSets, TLC

VARIABLES cfg, cli, disk_candidates, probe_env, probe, probe_ret, deadline,
          smart_results, finish_order, disks, pc, report_calls, mail_body,
          json_alerts, exit_code,
          config_file, attempt, smtp_log, smtp_result,
          host, smart_input, smart_out,
          platform, sysinfo_disks, excluded_not_found

vars == <<cfg, cli, disk_candidates, probe_env, probe, probe_ret, deadline,
          smart_results, finish_order, disks, pc, report_calls, mail_body,
          json_alerts, exit_code,
          config_file, attempt, smtp_log, smtp_result,
          host, smart_input, smart_out,
          platform, sysinfo_disks, excluded_not_found>>

\* the configuration file, the state of one SMTP retry loop, one call of
\* get_smart_status with the host it runs on, and the enumeration: the build
\* target, the volumes sysinfo lists and the exclusion warning
load_vars == <<config_file>>
smtp_vars == <<attempt, smtp_log, smtp_result>>
call_vars == <<host, smart_input, smart_out>>
enum_vars == <<platform, sysinfo_disks, excluded_not_found>>

-----------------------------------------------------------------------------
(* Bounds *)

MaxDisks == 2
MaxAlertDisks == 2
MaxReportDisks == 1
MaxLiveDisks == 2
MaxSmtpDisks == 2
MaxExitDisks == 1
MaxResolveDisks == 1
MaxVolumes == 2
MaxExcluded == 2

-----------------------------------------------------------------------------
(* Option and string helpers *)

None == <<>>
Some(x) == <<x>>
is_none(o) == o = <<>>
is_some(o) == o # <<>>
unwrap_or(o, d) == IF o = <<>> THEN d ELSE o[1]

\* str: the methods of Rust's str the program uses, on TLA+ strings
char_at(s, i) == SubSeq(s, i, i)

starts_with(s, p) == Len(s) >= Len(p) /\ SubSeq(s, 1, Len(p)) = p

contains(s, p) ==
    \E i \in 1..(Len(s) - Len(p) + 1) : SubSeq(s, i, i + Len(p) - 1) = p

RECURSIVE trim_start(_)
trim_start(s) ==
    IF s # "" /\ char_at(s, 1) = " " THEN trim_start(Tail(s)) ELSE s

RECURSIVE trim_end(_)
trim_end(s) ==
    IF s # "" /\ char_at(s, Len(s)) = " "
       THEN trim_end(SubSeq(s, 1, Len(s) - 1)) ELSE s

trim(s) == trim_end(trim_start(s))

RECURSIVE split(_, _)
\* s.split(c) for a one-character separator c, as a sequence of strings
split(s, c) ==
    IF \E i \in 1..Len(s) : char_at(s, i) = c
       THEN LET i == CHOOSE k \in 1..Len(s) :
                        /\ char_at(s, k) = c
                        /\ \A j \in 1..(k - 1) : char_at(s, j) # c
            IN <<SubSeq(s, 1, i - 1)>> \o split(SubSeq(s, i + 1, Len(s)), c)
       ELSE <<s>>

last(parts) == parts[Len(parts)]

RECURSIVE take_while(_, _)
\* the longest prefix of s whose characters are all in the set keep
take_while(s, keep) ==
    IF s # "" /\ char_at(s, 1) \in keep
       THEN char_at(s, 1) \o take_while(Tail(s), keep)
       ELSE ""

LowerCase == "abcdefghijklmnopqrstuvwxyz"
UpperCase == "ABCDEFGHIJKLMNOPQRSTUVWXYZ"

\* the character c with every character of from replaced by its partner in to
map_char(c, from, to) ==
    IF \E i \in 1..Len(from) : char_at(from, i) = c
       THEN char_at(to, CHOOSE i \in 1..Len(from) : char_at(from, i) = c)
       ELSE c

RECURSIVE map_chars(_, _, _)
map_chars(s, from, to) ==
    IF s = "" THEN ""
    ELSE map_char(char_at(s, 1), from, to) \o map_chars(Tail(s), from, to)

to_lowercase(s) == map_chars(s, UpperCase, LowerCase)

to_uppercase(s) == map_chars(s, LowerCase, UpperCase)

Digits == {"0", "1", "2", "3", "4", "5", "6", "7", "8", "9"}

Letters == {"a", "b", "c", "d", "e", "f", "g", "h", "i", "j", "k", "l", "m",
            "n", "o", "p", "q", "r", "s", "t", "u", "v", "w", "x", "y", "z",
            "A", "B", "C", "D", "E", "F", "G", "H", "I", "J", "K", "L", "M",
            "N", "O", "P", "Q", "R", "S", "T", "U", "V", "W", "X", "Y", "Z"}

RECURSIVE take_while_not(_, _)
\* the longest prefix of s with no character in the set stop
take_while_not(s, stop) ==
    IF s # "" /\ char_at(s, 1) \notin stop
       THEN char_at(s, 1) \o take_while_not(Tail(s), stop)
       ELSE ""

RECURSIVE SeqFilterIdx(_, _, _)
\* indices i in k..Len(s) with P[i], in increasing order
SeqFilterIdx(s, P, k) ==
    IF k > Len(s) THEN <<>>
    ELSE IF P[k] THEN <<k>> \o SeqFilterIdx(s, P, k + 1)
         ELSE SeqFilterIdx(s, P, k + 1)

Units == 1..Len(disk_candidates)

-----------------------------------------------------------------------------
(* Data *)

DEFAULT_THRESHOLD == 10
TEMP_WARN == 55

free_space_percent(available, total) == [num |-> available * 100, den |-> total]

percent_le(p, t) == p.num <= t * p.den

\* p < t on f64, for p = num/den with den > 0
percent_lt(p, t) == p.num < t * p.den

MountPoints == <<"/", "/home", "/var", "/srv">>
DeviceNames == <<"/dev/sda1", "/dev/sdb1", "/dev/sdc1", "/dev/sdd1">>

Candidate(i, available, total) ==
    [mount_point |-> MountPoints[i], display_name |-> MountPoints[i],
     free_space_percent |-> free_space_percent(available, total),
     total_space |-> total, available_space |-> available,
     file_system |-> "ext4", disk_name |-> DeviceNames[i]]

SmartTuple(status, serial, is_raid, realloc, temp, pending, uncorr, method) ==
    [smart_status |-> status, serial_number |-> serial, brand |-> None,
     model |-> None, is_raid |-> is_raid, power_on_hours |-> None,
     reallocated_sectors |-> realloc, temperature |-> temp,
     pending_sectors |-> pending, uncorrectable_sectors |-> uncorr,
     health_method |-> method]

EmptyTuple(method) == SmartTuple(None, None, FALSE, None, None, None, None, method)

PanicTuple == EmptyTuple("error")
TimeoutTuple == EmptyTuple("timeout")

DiskInfo(c, r) ==
    [mount_point |-> c.mount_point, display_name |-> c.display_name,
     free_space_percent |-> c.free_space_percent,
     total_space |-> c.total_space, available_space |-> c.available_space,
     file_system |-> c.file_system,
     smart_status |-> r.smart_status, serial_number |-> r.serial_number,
     brand |-> r.brand, model |-> r.model, is_raid |-> r.is_raid,
     power_on_hours |-> r.power_on_hours,
     reallocated_sectors |-> r.reallocated_sectors,
     temperature |-> r.temperature, pending_sectors |-> r.pending_sectors,
     uncorrectable_sectors |-> r.uncorrectable_sectors,
     health_method |-> r.health_method]

DisabledDiskInfo_Unknown(c) == DiskInfo(c, EmptyTuple("unknown"))

DisabledDiskInfo(c) == DiskInfo(c, EmptyTuple("disabled"))

-----------------------------------------------------------------------------
(* Settings read by the run *)

Config(mail, thr, unknown, dbg, health, smart) ==
    [mail_enabled |-> mail, threshold_percent |-> thr,
     send_mail_on_unknown_status |-> unknown, debug |-> dbg,
     health_check_enabled |-> health, smart_enabled |-> smart,
     smtp_server |-> "mail.example.org", smtp_port |-> 587,
     smtp_security |-> None,
     email_from |-> "ops@example.org", email_to |-> "a@example.org",
     excluded_disks |-> None]

\* the configuration file as load_config finds it (content None: missing,
\* unreadable or not YAML for Config) and the DISKMON_EMAIL_* variables
ConfigFile(content, env_from, env_to) ==
    [content |-> content, DISKMON_EMAIL_FROM |-> env_from,
     DISKMON_EMAIL_TO |-> env_to]

\* the recipients of email_to that are not blank
recipients(email_to) ==
    LET parts == split(email_to, ",")
    IN {trim(parts[i]) : i \in {j \in 1..Len(parts) : trim(parts[j]) # ""}}

\* validate_config(config) is Ok
validate_config(c) ==
    /\ trim(c.smtp_server) # ""
    /\ trim(c.email_from) # ""
    /\ trim(c.email_to) # ""
    /\ c.smtp_port # 0
    /\ is_some(c.threshold_percent) =>
          c.threshold_percent[1] >= 1 /\ c.threshold_percent[1] <= 100
    /\ is_some(c.smtp_security) =>
          to_lowercase(c.smtp_security[1]) \in {"none", "starttls", "ssl"}
    /\ contains(c.email_from, "@")
    /\ recipients(c.email_to) # {}
    /\ \A a \in recipients(c.email_to) : contains(a, "@")

env_override(value, var) ==
    IF is_some(var) /\ trim(var[1]) # "" THEN var[1] ELSE value

apply_env_overrides(c, file) ==
    [c EXCEPT !.email_from = env_override(@, file.DISKMON_EMAIL_FROM),
              !.email_to = env_override(@, file.DISKMON_EMAIL_TO)]

\* load_config: Some(config) for Ok, None for Err
load_config(file) ==
    IF is_none(file.content) THEN None
    ELSE IF ~validate_config(file.content[1]) THEN None
    ELSE Some(apply_env_overrides(file.content[1], file))

\* addr.parse() into a mailbox is Ok: one "@" with a local part before it
\* and a domain after it
parse_ok(addr) ==
    LET parts == split(addr, "@")
    IN /\ Len(parts) = 2
       /\ parts[1] # "" /\ ~contains(parts[1], " ")
       /\ parts[2] # "" /\ ~contains(parts[2], " ")

\* send_system_report gets past building the message
message_built(c) ==
    /\ parse_ok(c.email_from)
    /\ \A a \in recipients(c.email_to) : parse_ok(a)

Cli(force, smart, json) == [force_mail |-> force, smart |-> smart, json |-> json]

health_check_enabled == unwrap_or(cfg.health_check_enabled, TRUE)
smart_alerts_enabled == unwrap_or(cfg.smart_enabled, TRUE)
alert_on_unknown == unwrap_or(cfg.send_mail_on_unknown_status, FALSE)
debug == unwrap_or(cfg.debug, FALSE)
threshold == unwrap_or(cfg.threshold_percent, DEFAULT_THRESHOLD)

-----------------------------------------------------------------------------
(* get_monitored_disks: the enumeration *)

\* what sysinfo lists for one mounted volume; mount_point and name are None
\* when to_str() gives None
Volume(mount_point, name, total, available) ==
    [mount_point |-> mount_point, name |-> name, total_space |-> total,
     available_space |-> available, file_system |-> "ext4"]

removable_or_network(os, mount_point) ==
    IF os = "windows"
       THEN \/ starts_with(mount_point, "\\\\")
            \/ starts_with(mount_point, "A:")
            \/ starts_with(mount_point, "B:")
       ELSE \/ starts_with(mount_point, "/media/")
            \/ starts_with(mount_point, "/mnt/")
            \/ starts_with(mount_point, "/run/media/")

display_name(os, mount_point) ==
    IF os = "windows" /\ Len(mount_point) >= 2 /\ char_at(mount_point, 2) = ":"
       THEN "Drive " \o to_uppercase(char_at(mount_point, 1))
       ELSE mount_point

skipped_ZeroKept(os, v) ==
    \/ is_none(v.mount_point)
    \/ removable_or_network(os, v.mount_point[1])

\* the three continue statements before the exclusion test
skipped(os, v) ==
    \/ is_none(v.mount_point)
    \/ removable_or_network(os, v.mount_point[1])
    \/ v.total_space = 0

entry_matches_Substring(os, v, ex) ==
    /\ trim(ex) # ""
    /\ IF os = "windows"
          THEN contains(to_uppercase(display_name(os, v.mount_point[1])),
                        to_uppercase(trim(ex)))
          ELSE contains(unwrap_or(v.name, ""), trim(ex))

\* the value of found in the closure handed to any(), for one entry
entry_matches(os, v, ex) ==
    /\ trim(ex) # ""
    /\ IF os = "windows"
          THEN contains(to_uppercase(display_name(os, v.mount_point[1])),
                        to_uppercase(trim(ex)))
          ELSE unwrap_or(v.name, "") = trim(ex)

is_excluded(os, v, excluded) ==
    \E i \in 1..Len(excluded) : entry_matches(os, v, excluded[i])

\* found_excluded after any() has run over the entries for one volume: any()
\* stops at the first entry whose closure returns true
mark_found(found, os, v, excluded) ==
    [i \in 1..Len(excluded) |->
        \/ found[i]
        \/ /\ entry_matches(os, v, excluded[i])
           /\ \A j \in 1..(i - 1) : ~entry_matches(os, v, excluded[j])]

candidate(os, v) ==
    [mount_point |-> v.mount_point[1],
     display_name |-> display_name(os, v.mount_point[1]),
     free_space_percent |-> free_space_percent(v.available_space, v.total_space),
     total_space |-> v.total_space, available_space |-> v.available_space,
     file_system |-> v.file_system, disk_name |-> unwrap_or(v.name, "")]

RECURSIVE scan_disks(_, _, _, _, _, _)
\* the loop over disks.list(), from volume k on
scan_disks(os, list, excluded, k, cands, found) ==
    IF k > Len(list)
       THEN [disk_candidates |-> cands, found_excluded |-> found]
    ELSE IF skipped(os, list[k])
       THEN scan_disks(os, list, excluded, k + 1, cands, found)
    ELSE IF is_excluded(os, list[k], excluded)
       THEN scan_disks(os, list, excluded, k + 1, cands,
                       mark_found(found, os, list[k], excluded))
    ELSE scan_disks(os, list, excluded, k + 1,
                    Append(cands, candidate(os, list[k])), found)

\* the entries pushed to excluded_not_found, as written in the settings
not_found(excluded, found) ==
    LET idx == SeqFilterIdx(excluded, [i \in 1..Len(excluded) |-> ~found[i]], 1)
    IN  [k \in 1..Len(idx) |-> excluded[idx[k]]]

excluded_disks == unwrap_or(cfg.excluded_disks, <<>>)

\* the loop has ended: the candidates are kept and the warning is logged
EnumerationEnds(r) ==
    /\ disk_candidates' = r.disk_candidates
    /\ excluded_not_found' = Some(not_found(excluded_disks, r.found_excluded))

\* get_monitored_disks up to the warning; no unit exists yet
Enumerate ==
    /\ pc = "enumerate"
    /\ EnumerationEnds(scan_disks(platform[1], sysinfo_disks, excluded_disks, 1,
                                  <<>>, [i \in 1..Len(excluded_disks) |-> FALSE]))
    /\ pc' = "start"
    /\ UNCHANGED <<platform, sysinfo_disks, load_vars, smtp_vars, call_vars>>
    /\ UNCHANGED <<cfg, cli, probe_env, probe, probe_ret, deadline,
                   smart_results, finish_order, disks, report_calls,
                   mail_body, json_alerts, exit_code>>

-----------------------------------------------------------------------------
(* get_monitored_disks: the collector *)

UnitReady_NoTimeout(i) == probe[i] # "running"

\* timeout(d, spawn_blocking(..)) is ready once the blocking task has ended
\* or the delay has expired
UnitReady(i) == probe[i] # "running" \/ deadline[i]

UnitResult_Swapped(i) ==
    IF probe[i] = "done" THEN probe_ret[i][1]
    ELSE IF probe[i] = "panicked" THEN TimeoutTuple
    ELSE PanicTuple

\* one failed unit fails the batch
UnitResult_Poisoned(i) ==
    IF \E k \in Units : probe[k] = "panicked" \/ (probe[k] = "running" /\ deadline[k])
       THEN PanicTuple
    ELSE IF probe[i] = "done" THEN probe_ret[i][1]
    ELSE TimeoutTuple

\* the match on the awaited timeout: the join handle is polled before the
\* delay, so a finished task wins over an expired delay
UnitResult(i) ==
    IF probe[i] = "done" THEN probe_ret[i][1]
    ELSE IF probe[i] = "panicked" THEN PanicTuple
    ELSE TimeoutTuple

JoinAllOutput_ByCompletion == [k \in Units |-> smart_results[finish_order[k]][1]]

\* join_all: the outputs in the order of the futures handed in
JoinAllOutput == [i \in Units |-> smart_results[i][1]]

ZipDisks(cands, results) ==
    [i \in 1..Len(cands) |-> DiskInfo(cands[i], results[i])]

DisabledDisks(cands) == [i \in 1..Len(cands) |-> DisabledDiskInfo(cands[i])]

LaunchUnits ==
    /\ pc = "start"
    /\ health_check_enabled
    /\ probe' = [i \in Units |-> "running"]
    /\ pc' = "collecting"
    /\ UNCHANGED <<load_vars, smtp_vars, call_vars, enum_vars>>
    /\ UNCHANGED <<cfg, cli, disk_candidates, probe_env, probe_ret, deadline,
                   smart_results, finish_order, disks, report_calls,
                   mail_body, json_alerts, exit_code>>

CollectDisabled ==
    /\ pc = "start"
    /\ ~health_check_enabled
    /\ disks' = DisabledDisks(disk_candidates)
    /\ pc' = "returned"
    /\ UNCHANGED <<load_vars, smtp_vars, call_vars, enum_vars>>
    /\ UNCHANGED <<cfg, cli, disk_candidates, probe_env, probe, probe_ret,
                   deadline, smart_results, finish_order, report_calls,
                   mail_body, json_alerts, exit_code>>

\* the blocking get_smart_status call returns; it may do so after its unit
\* has already been resolved by the timeout
ProbeComplete(i) ==
    /\ pc \in {"collecting", "returned"}
    /\ probe[i] = "running"
    /\ \E r \in probe_env[i] :
          /\ probe' = [probe EXCEPT ![i] = "done"]
          /\ probe_ret' = [probe_ret EXCEPT ![i] = Some(r)]
    /\ UNCHANGED <<load_vars, smtp_vars, call_vars, enum_vars>>
    /\ UNCHANGED <<cfg, cli, disk_candidates, probe_env, deadline,
                   smart_results, finish_order, disks, pc, report_calls,
                   mail_body, json_alerts, exit_code>>

ProbePanic(i) ==
    /\ pc \in {"collecting", "returned"}
    /\ probe[i] = "running"
    /\ probe' = [probe EXCEPT ![i] = "panicked"]
    /\ UNCHANGED <<load_vars, smtp_vars, call_vars, enum_vars>>
    /\ UNCHANGED <<cfg, cli, disk_candidates, probe_env, probe_ret, deadline,
                   smart_results, finish_order, disks, pc, report_calls,
                   mail_body, json_alerts, exit_code>>

\* the per-volume delay expires; it exists only while its unit is pending
TimerElapse(i) ==
    /\ pc = "collecting"
    /\ is_none(smart_results[i])
    /\ ~deadline[i]
    /\ deadline' = [deadline EXCEPT ![i] = TRUE]
    /\ UNCHANGED <<load_vars, smtp_vars, call_vars, enum_vars>>
    /\ UNCHANGED <<cfg, cli, disk_candidates, probe_env, probe, probe_ret,
                   smart_results, finish_order, disks, pc, report_calls,
                   mail_body, json_alerts, exit_code>>

\* the scheduler polls a woken unit, which resolves
UnitPoll(i) ==
    /\ pc = "collecting"
    /\ is_none(smart_results[i])
    /\ UnitReady(i)
    /\ smart_results' = [smart_results EXCEPT ![i] = Some(UnitResult(i))]
    /\ finish_order' = Append(finish_order, i)
    /\ UNCHANGED <<load_vars, smtp_vars, call_vars, enum_vars>>
    /\ UNCHANGED <<cfg, cli, disk_candidates, probe_env, probe, probe_ret,
                   deadline, disks, pc, report_calls, mail_body, json_alerts,
                   exit_code>>

\* join_all resolves once every unit has; the records are then zipped
JoinAndZip ==
    /\ pc = "collecting"
    /\ \A i \in Units : is_some(smart_results[i])
    /\ disks' = ZipDisks(disk_candidates, JoinAllOutput)
    /\ pc' = "returned"
    /\ UNCHANGED <<load_vars, smtp_vars, call_vars, enum_vars>>
    /\ UNCHANGED <<cfg, cli, disk_candidates, probe_env, probe, probe_ret,
                   deadline, smart_results, finish_order, report_calls,
                   mail_body, json_alerts, exit_code>>

-----------------------------------------------------------------------------
(* main and send_system_report: what is done with the returned list *)

is_low_space(d) == percent_lt(d.free_space_percent, threshold)

is_smart_fail(d) == to_uppercase(unwrap_or(d.smart_status, "OK")) # "OK"

send_on_unknown(d) == alert_on_unknown /\ is_none(d.smart_status)

is_problem_disk_Ungated(d) ==
    \/ is_low_space(d)
    \/ (smart_alerts_enabled /\ is_smart_fail(d))
    \/ send_on_unknown(d)
    \/ debug

is_problem_disk_Raid(d) ==
    \/ is_low_space(d)
    \/ (smart_alerts_enabled /\ (is_smart_fail(d) \/ send_on_unknown(d)))
    \/ debug
    \/ d.is_raid

is_problem_disk_SmartAlways(d) ==
    \/ is_low_space(d)
    \/ is_smart_fail(d)
    \/ (smart_alerts_enabled /\ send_on_unknown(d))
    \/ debug

is_problem_disk(d) ==
    \/ is_low_space(d)
    \/ (smart_alerts_enabled /\ (is_smart_fail(d) \/ send_on_unknown(d)))
    \/ debug

problem_disks(ds) ==
    LET idx == SeqFilterIdx(ds, [i \in 1..Len(ds) |-> is_problem_disk(ds[i])], 1)
    IN  [k \in 1..Len(idx) |-> ds[idx[k]]]

ReportedDisks_OnlyProblems(ds, problems) == problems

\* the list send_system_report is handed in the non-forced branch
ReportedDisks(ds, problems) == ds

status_indicator_SmartFirst(d) ==
    IF is_smart_fail(d) THEN "[SMART FAILING]"
    ELSE IF is_low_space(d) THEN "[LOW SPACE]"
    ELSE IF \/ unwrap_or(d.reallocated_sectors, 0) > 0
            \/ unwrap_or(d.pending_sectors, 0) > 0
            \/ unwrap_or(d.uncorrectable_sectors, 0) > 0
            \/ unwrap_or(d.temperature, 0) > TEMP_WARN
         THEN "[SMART WARNING]"
    ELSE "[OK]"

status_indicator(d) ==
    IF is_low_space(d) THEN "[LOW SPACE]"
    ELSE IF is_smart_fail(d) THEN "[SMART FAILING]"
    ELSE IF \/ unwrap_or(d.reallocated_sectors, 0) > 0
            \/ unwrap_or(d.pending_sectors, 0) > 0
            \/ unwrap_or(d.uncorrectable_sectors, 0) > 0
            \/ unwrap_or(d.temperature, 0) > TEMP_WARN
         THEN "[SMART WARNING]"
    ELSE "[OK]"

low_space_disks(ds) == Cardinality({i \in 1..Len(ds) : is_low_space(ds[i])})

smart_failing_disks_Unknown(ds) ==
    Cardinality({i \in 1..Len(ds) :
                   to_uppercase(unwrap_or(ds[i].smart_status, "UNKNOWN")) # "OK"})

smart_failing_disks(ds) == Cardinality({i \in 1..Len(ds) : is_smart_fail(ds[i])})

unknown_smart_disks(ds) == Cardinality({i \in 1..Len(ds) : is_none(ds[i].smart_status)})

ReportBody(ds, forced) ==
    [total_disks |-> Len(ds),
     low_space_disks |-> low_space_disks(ds),
     smart_failing_disks |-> smart_failing_disks(ds),
     unknown_smart_disks |-> unknown_smart_disks(ds),
     indicators |-> [i \in 1..Len(ds) |-> status_indicator(ds[i])],
     forced |-> forced]

RECURSIVE JsonAlerts(_, _)
JsonAlerts(ds, k) ==
    IF k > Len(ds) THEN <<>>
    ELSE (IF is_low_space(ds[k])
             THEN <<[disk |-> ds[k].display_name, kind |-> "Low space"]>>
             ELSE <<>>)
         \o (IF is_smart_fail(ds[k])
             THEN <<[disk |-> ds[k].display_name, kind |-> "SMART failure"]>>
             ELSE <<>>)
         \o JsonAlerts(ds, k + 1)

SendSystemReport_AlwaysSends(ds, forced, delivered) ==
    /\ report_calls' = Append(report_calls, [disks |-> ds, forced |-> forced])
    /\ IF ~message_built(cfg)
          THEN /\ mail_body' = mail_body
               /\ exit_code' = Some(2)
          ELSE /\ mail_body' = Some(ReportBody(ds, forced))
               /\ exit_code' = IF delivered THEN Some(0) ELSE Some(2)

\* send_system_report(cfg, ds, .., forced, ..) called from main; delivered
\* is the outcome of the SMTP retry loop; then the summary and the exit
SendSystemReport(ds, forced, delivered) ==
    /\ report_calls' = Append(report_calls, [disks |-> ds, forced |-> forced])
    /\ IF ~cfg.mail_enabled
          THEN /\ mail_body' = mail_body
               /\ exit_code' = Some(0)
          ELSE IF ~message_built(cfg)
          THEN /\ mail_body' = mail_body
               /\ exit_code' = Some(2)
          ELSE /\ mail_body' = Some(ReportBody(ds, forced))
               /\ exit_code' = IF delivered THEN Some(0) ELSE Some(2)

\* main, first step: load_config; Err exits with 2, Ok goes on to the
\* enumeration and the collection
LoadConfig ==
    /\ pc = "load"
    /\ IF is_none(load_config(config_file))
          THEN /\ exit_code' = Some(2)
               /\ pc' = "done"
               /\ cfg' = cfg
          ELSE /\ cfg' = load_config(config_file)[1]
               /\ pc' = "start"
               /\ exit_code' = exit_code
    /\ UNCHANGED <<load_vars, smtp_vars, call_vars, enum_vars>>
    /\ UNCHANGED <<cli, disk_candidates, probe_env, probe, probe_ret,
                   deadline, smart_results, finish_order, disks,
                   report_calls, mail_body, json_alerts>>

ExitNoDisks ==
    /\ pc = "returned"
    /\ disks = <<>>
    /\ exit_code' = Some(1)
    /\ pc' = "done"
    /\ UNCHANGED <<load_vars, smtp_vars, call_vars, enum_vars>>
    /\ UNCHANGED <<cfg, cli, disk_candidates, probe_env, probe, probe_ret,
                   deadline, smart_results, finish_order, disks,
                   report_calls, mail_body, json_alerts>>

JsonOutput ==
    /\ pc = "returned"
    /\ disks # <<>>
    /\ cli.json
    /\ json_alerts' = Some(JsonAlerts(disks, 1))
    /\ exit_code' = Some(0)
    /\ pc' = "done"
    /\ UNCHANGED <<load_vars, smtp_vars, call_vars, enum_vars>>
    /\ UNCHANGED <<cfg, cli, disk_candidates, probe_env, probe, probe_ret,
                   deadline, smart_results, finish_order, disks,
                   report_calls, mail_body>>

SmartDisplay ==
    /\ pc = "returned"
    /\ disks # <<>>
    /\ ~cli.json
    /\ cli.smart
    /\ exit_code' = Some(0)
    /\ pc' = "done"
    /\ UNCHANGED <<load_vars, smtp_vars, call_vars, enum_vars>>
    /\ UNCHANGED <<cfg, cli, disk_candidates, probe_env, probe, probe_ret,
                   deadline, smart_results, finish_order, disks,
                   report_calls, mail_body, json_alerts>>

ForcedMail_AnyMode ==
    /\ pc = "returned"
    /\ disks # <<>>
    /\ cli.force_mail
    /\ \E delivered \in BOOLEAN : SendSystemReport(disks, TRUE, delivered)
    /\ pc' = "done"
    /\ UNCHANGED <<load_vars, smtp_vars, call_vars, enum_vars>>
    /\ UNCHANGED <<cfg, cli, disk_candidates, probe_env, probe, probe_ret,
                   deadline, smart_results, finish_order, disks, json_alerts>>

ForcedMail ==
    /\ pc = "returned"
    /\ disks # <<>>
    /\ ~cli.json
    /\ ~cli.smart
    /\ cli.force_mail
    /\ \E delivered \in BOOLEAN : SendSystemReport(disks, TRUE, delivered)
    /\ pc' = "done"
    /\ UNCHANGED <<load_vars, smtp_vars, call_vars, enum_vars>>
    /\ UNCHANGED <<cfg, cli, disk_candidates, probe_env, probe, probe_ret,
                   deadline, smart_results, finish_order, disks, json_alerts>>

AlertDecision ==
    /\ pc = "returned"
    /\ disks # <<>>
    /\ ~cli.json
    /\ ~cli.smart
    /\ ~cli.force_mail
    /\ IF problem_disks(disks) # <<>>
          THEN \E delivered \in BOOLEAN :
                  SendSystemReport(ReportedDisks(disks, problem_disks(disks)),
                                   FALSE, delivered)
          ELSE /\ exit_code' = Some(0)
               /\ UNCHANGED <<report_calls, mail_body>>
    /\ pc' = "done"
    /\ UNCHANGED <<load_vars, smtp_vars, call_vars, enum_vars>>
    /\ UNCHANGED <<cfg, cli, disk_candidates, probe_env, probe, probe_ret,
                   deadline, smart_results, finish_order, disks, json_alerts>>

-----------------------------------------------------------------------------
(* send_system_report: the SMTP retry loop *)

max_attempts == 3

\* delays backoff.next_backoff() hands out, in seconds: between the initial
\* interval and the greatest interval set on the policy
Delays == {1, 30}

\* what next_backoff() can return: a delay, or None once the policy's
\* greatest elapsed time is used up
NextBackoff == {None} \cup {Some(d) : d \in Delays}

SmtpEvent(ev, n, delay) == [ev |-> ev, attempt |-> n, delay |-> delay]

retry_exhausted_Late(a) == a > max_attempts

retry_exhausted(a) == a >= max_attempts

\* one pass of the loop body: mailer.send(&email) returns; Ok breaks out and
\* the function returns Ok; Err returns Err when the attempts are used up or
\* the policy gives no delay, and otherwise starts the sleep
SmtpSend ==
    /\ pc = "smtp_send"
    /\ \E sent \in BOOLEAN, backoff \in NextBackoff :
         IF sent
            THEN /\ smtp_log' = Append(smtp_log, SmtpEvent("ok", attempt, 0))
                 /\ smtp_result' = Some("Ok")
                 /\ pc' = "smtp_returned"
            ELSE IF retry_exhausted(attempt)
            THEN /\ smtp_log' = Append(smtp_log, SmtpEvent("err", attempt, 0))
                 /\ smtp_result' = Some("Err")
                 /\ pc' = "smtp_returned"
            ELSE IF is_some(backoff)
            THEN /\ smtp_log' = smtp_log \o <<SmtpEvent("err", attempt, 0),
                                               SmtpEvent("sleep", attempt, backoff[1])>>
                 /\ smtp_result' = smtp_result
                 /\ pc' = "smtp_sleep"
            ELSE /\ smtp_log' = smtp_log \o <<SmtpEvent("err", attempt, 0),
                                               SmtpEvent("no_delay", attempt, 0)>>
                 /\ smtp_result' = Some("Err")
                 /\ pc' = "smtp_returned"
    /\ UNCHANGED <<attempt, load_vars, call_vars, enum_vars>>
    /\ UNCHANGED <<cfg, cli, disk_candidates, probe_env, probe, probe_ret,
                   deadline, smart_results, finish_order, disks,
                   report_calls, mail_body, json_alerts, exit_code>>

\* tokio::time::sleep(delay) is over: attempt += 1 and the loop goes round
SmtpWake ==
    /\ pc = "smtp_sleep"
    /\ attempt' = attempt + 1
    /\ pc' = "smtp_send"
    /\ UNCHANGED <<smtp_log, smtp_result, load_vars, call_vars, enum_vars>>
    /\ UNCHANGED <<cfg, cli, disk_candidates, probe_env, probe, probe_ret,
                   deadline, smart_results, finish_order, disks,
                   report_calls, mail_body, json_alerts, exit_code>>

-----------------------------------------------------------------------------
(* linux::get_smart_status: the resolver and the probe chain *)

\* The host a probe runs on.  mounts: the lines of /proc/mounts as
\* [source, mount_point] (None: unreadable).  smartctl: for every "-d" type
\* of an argument variant, what running smartctl with it gives.  dmesg, fsck:
\* what running them gives (None: cannot be run).  files: the readable files
\* by path; dirs: the other paths that exist.
Mount(source, mount_point) == [source |-> source, mount_point |-> mount_point]

\* the outcome of Command::output(): ran (the Ok arm), the exit code, whether
\* stdout is UTF-8, and its lines
Output(ran, code, utf8, lines) ==
    [ran |-> ran, code |-> code, utf8 |-> utf8, lines |-> lines]

read_to_string(h, path) ==
    IF path \in DOMAIN h.files THEN Some(h.files[path]) ELSE None

exists(h, path) == path \in DOMAIN h.files \/ path \in h.dirs

RECURSIVE parse_digits(_, _)
parse_digits(s, acc) ==
    IF s = "" THEN acc
    ELSE parse_digits(Tail(s),
            acc * 10 + (CHOOSE d \in 0..9 :
               char_at(s, 1) = char_at("0123456789", d + 1)))

\* s.parse::<u64>() as an Option
parse_u64(s) ==
    IF s # "" /\ \A i \in 1..Len(s) : char_at(s, i) \in Digits
       THEN Some(parse_digits(s, 0)) ELSE None

\* s.parse::<i64>() as an Option
parse_i64(s) ==
    IF s # "" /\ char_at(s, 1) \in {"-", "+"}
       THEN IF is_some(parse_u64(Tail(s)))
               THEN Some(IF char_at(s, 1) = "-" THEN 0 - parse_u64(Tail(s))[1]
                         ELSE parse_u64(Tail(s))[1])
               ELSE None
       ELSE parse_u64(s)

\* line.split(':').nth(1).unwrap_or("").trim()
after_colon(line) ==
    LET parts == split(line, ":")
    IN trim(IF Len(parts) >= 2 THEN parts[2] ELSE "")

\* the mutable locals of get_smart_status that the probes fill in
NoFindings ==
    [smart_status |-> None, serial_number |-> None, brand |-> None,
     model |-> None, power_on_hours |-> None, reallocated_sectors |-> None,
     temperature |-> None, pending_sectors |-> None,
     uncorrectable_sectors |-> None]

health_line(f, line) ==
    IF contains(line, "SMART overall-health self-assessment test result:")
       THEN [f EXCEPT !.smart_status =
                IF contains(line, "PASSED") THEN Some("OK")
                ELSE IF contains(line, "FAILED") THEN Some("FAILING")
                ELSE Some("WARNING")]
       ELSE f

health_status_line(f, line) ==
    IF contains(line, "SMART Health Status:")
       THEN [f EXCEPT !.smart_status =
                IF contains(line, "OK") THEN Some("OK") ELSE Some("WARNING")]
       ELSE f

\* "if cond { field = value }" on the findings
set_if(cond, f, field, value) == IF cond THEN [f EXCEPT ![field] = value] ELSE f

identity_line(f, line) ==
    LET f1 == set_if(starts_with(line, "Device Model:") \/ starts_with(line, "Model Number:"),
                     f, "model", Some(after_colon(line)))
        f2 == set_if(starts_with(line, "Serial Number:"),
                     f1, "serial_number", Some(after_colon(line)))
        f3 == set_if(starts_with(line, "Vendor:"), f2, "brand", Some(after_colon(line)))
    IN set_if(starts_with(line, "Device:"), f3, "model", Some(after_colon(line)))

attribute_line(f, line) ==
    LET u == parse_u64(after_colon(line))
        t == parse_i64(after_colon(line))
        f1 == set_if(contains(line, "Power_On_Hours") /\ is_some(u),
                     f, "power_on_hours", u)
        f2 == set_if(contains(line, "Reallocated_Sector_Ct") /\ is_some(u),
                     f1, "reallocated_sectors", u)
        f3 == set_if(contains(line, "Temperature_Celsius") /\ is_some(t),
                     f2, "temperature", t)
        f4 == set_if(contains(line, "Current_Pending_Sector") /\ is_some(u),
                     f3, "pending_sectors", u)
    IN set_if(contains(line, "Offline_Uncorrectable") /\ is_some(u),
              f4, "uncorrectable_sectors", u)

\* the body of the loop over the lines of one smartctl output
parse_line(f, raw) ==
    LET line == trim(raw)
    IN attribute_line(identity_line(health_status_line(health_line(f, line), line), line), line)

RECURSIVE parse_output(_, _, _)
parse_output(f, lines, k) ==
    IF k > Len(lines) THEN f
    ELSE parse_output(parse_line(f, lines[k]), lines, k + 1)

\* the output is taken: the command ran, ended with success or with 4, and
\* printed UTF-8
accepted(out) == out.ran /\ out.code \in {0, 4} /\ out.utf8

\* "we got useful information from smartctl"
useful_Any(f) ==
    \/ is_some(f.smart_status) \/ is_some(f.model) \/ is_some(f.serial_number)
    \/ is_some(f.brand) \/ is_some(f.power_on_hours)
    \/ is_some(f.reallocated_sectors) \/ is_some(f.temperature)
    \/ is_some(f.pending_sectors) \/ is_some(f.uncorrectable_sectors)

useful(f) ==
    is_some(f.smart_status) \/ is_some(f.model) \/ is_some(f.serial_number)

\* "if no SMART status but we got device info, assume OK"
assume_ok(f) ==
    IF is_none(f.smart_status) THEN [f EXCEPT !.smart_status = Some("OK")] ELSE f

Probed(name, f) == [probe |-> name, smart_status |-> f.smart_status]

\* the state of a call: the findings, the method, the probes executed so far
\* with the status after each, and whether the function has returned
Call(f, method, trace, returned) ==
    [f |-> f, health_method |-> method, trace |-> trace, returned |-> returned]

\* the argument variants for a base device, by their "-d" type
smartctl_args(device_base) ==
    IF contains(device_base, "mmcblk") THEN <<"default", "auto", "sat">>
    ELSE IF contains(device_base, "nvme") THEN <<"default", "nvme">>
    ELSE <<"default", "auto", "sat">>

\* the call after one more probe, which left the findings f
after_probe(c, name, f, returned) ==
    Call(f, c.health_method, Append(c.trace, Probed(name, f)), returned)

\* the function returns the findings, with OK when they hold no status
return_ok(c) == Call(assume_ok(c.f), c.health_method, c.trace, TRUE)

after_smartctl_NoExit(c, name, out, f) == after_probe(c, name, f, FALSE)

\* the call after one smartctl output: with useful findings the function
\* returns them
after_smartctl(c, name, out, f) ==
    IF accepted(out) /\ useful(f)
       THEN return_ok(after_probe(c, name, f, FALSE))
       ELSE after_probe(c, name, f, FALSE)

RECURSIVE smartctl_variants(_, _, _, _)
\* the loop over the variants from the k-th on
smartctl_variants(h, c, args, k) ==
    IF k > Len(args) \/ c.returned THEN c
    ELSE smartctl_variants(h,
            after_smartctl(c, "smartctl " \o args[k], h.smartctl[args[k]],
                IF accepted(h.smartctl[args[k]])
                   THEN parse_output(c.f, h.smartctl[args[k]].lines, 1) ELSE c.f),
            args, k + 1)

smartctl_stage(h, c, device_base) ==
    IF h.smartctl_available
       THEN smartctl_variants(h, [c EXCEPT !.health_method = "smartmontools"],
                              smartctl_args(device_base), 1)
       ELSE c

\* the last n elements of a sequence
take_last(lines, n) ==
    IF Len(lines) <= n THEN lines ELSE SubSeq(lines, Len(lines) - n + 1, Len(lines))

mmc_error_line(line, device_short) ==
    /\ contains(to_lowercase(line), device_short)
    /\ \/ contains(to_lowercase(line), "error")
       \/ contains(to_lowercase(line), "fail")
       \/ contains(to_lowercase(line), "timeout")
       \/ contains(to_lowercase(line), "crc")

\* the first line of a file, trimmed ("" for an empty file)
trimmed(lines) == IF lines = <<>> THEN "" ELSE trim(lines[1])

RECURSIVE to_hex(_)
to_hex(n) ==
    IF n < 16 THEN char_at("0123456789ABCDEF", n + 1)
    ELSE to_hex(n \div 16) \o char_at("0123456789ABCDEF", (n % 16) + 1)

\* format!("{:02X}", n)
hex02(n) == IF n < 16 THEN "0" \o to_hex(n) ELSE to_hex(n)

mmc_brand(manfid) ==
    CASE manfid = 1 -> "Panasonic"
      [] manfid = 2 -> "Toshiba"
      [] manfid = 3 -> "SanDisk"
      [] manfid = 19 -> "Micron"
      [] manfid = 21 -> "Samsung"
      [] manfid = 39 -> "Phison"
      [] manfid = 40 -> "Lexar"
      [] manfid = 65 -> "Kingston"
      [] manfid = 111 -> "STMicroelectronics"
      [] manfid = 116 -> "Transcend"
      [] manfid = 118 -> "Patriot"
      [] OTHER -> "Unknown (0x" \o hex02(manfid) \o ")"

HexDigits == Digits \cup {"a", "b", "c", "d", "e", "f", "A", "B", "C", "D", "E", "F"}

\* the serial number out of the card identification register
cid_serial(cid) ==
    IF Len(cid) >= 32 /\ \A i \in 19..26 : char_at(cid, i) \in HexDigits
       THEN Some(to_uppercase(SubSeq(cid, 19, 26)))
       ELSE None

\* the identification files of an MMC device
mmc_sysfs(h, f, sysfs_path) ==
    IF ~exists(h, sysfs_path) THEN f
    ELSE LET name == read_to_string(h, sysfs_path \o "/name")
             cid == read_to_string(h, sysfs_path \o "/cid")
             manfid == read_to_string(h, sysfs_path \o "/manfid")
             f1 == set_if(is_some(name), f, "model", Some(trimmed(name[1])))
             f2 == set_if(is_some(cid) /\ cid[1] # <<>> /\ is_some(cid_serial(cid[1][1])),
                          f1, "serial_number", cid_serial(cid[1][1]))
         IN set_if(is_some(manfid) /\ is_some(parse_u64(trimmed(manfid[1]))),
                   f2, "brand", Some(mmc_brand(parse_u64(trimmed(manfid[1]))[1])))

\* the last 1000 lines of the kernel log name an error of the device
mmc_errors(h, device_short) ==
    \E i \in 1..Len(take_last(h.dmesg[1], 1000)) :
        mmc_error_line(take_last(h.dmesg[1], 1000)[i], device_short)

\* the function returns after the MMC stage when it has a status
mmc_end(c, f) == after_probe(c, "dmesg mmc", f, is_some(f.smart_status))

\* the MMC and SD card stage
mmc_stage(h, c, device_base) ==
    IF c.returned \/ ~contains(device_base, "mmcblk") THEN c
    ELSE LET device_short == last(split(device_base, "/"))
             f1 == set_if(is_some(h.dmesg), c.f, "smart_status",
                          IF mmc_errors(h, device_short)
                             THEN Some("WARNING") ELSE Some("OK"))
         IN mmc_end([c EXCEPT !.health_method = "kernel"],
                    mmc_sysfs(h, f1, "/sys/block/" \o device_short \o "/device"))

RECURSIVE split_whitespace(_)
\* s.split_whitespace() as a sequence of strings
split_whitespace(s) ==
    LET t == trim_start(s)
    IN IF t = "" THEN <<>>
       ELSE LET word == take_while_not(t, {" "})
            IN <<word>> \o split_whitespace(SubSeq(t, Len(word) + 1, Len(t)))

\* WARNING for a counter above zero, OK for zero, nothing when it is no number
io_errors(f, field) ==
    IF is_some(parse_u64(field))
       THEN [f EXCEPT !.smart_status =
                IF parse_u64(field)[1] > 0 THEN Some("WARNING") ELSE Some("OK")]
       ELSE f

smart_attributes_probe(h, c, sysfs_path) ==
    LET data == read_to_string(h, sysfs_path \o "/smart_attributes")
    IN after_probe(c, "smart_attributes",
          set_if(is_some(data) /\ \E i \in 1..Len(data[1]) :
                    contains(data[1][i], "FAILING_NOW") \/ contains(data[1][i], "Pre-fail"),
                 c.f, "smart_status", Some("FAILING")),
          FALSE)

\* the two counters are read only while there is no status
stat_probe(h, c, device_base) ==
    IF is_some(c.f.smart_status) THEN c
    ELSE LET data == read_to_string(h, "/sys/block/" \o device_base \o "/stat")
             parts == IF is_some(data) /\ data[1] # <<>>
                         THEN split_whitespace(data[1][1]) ELSE <<>>
         IN after_probe(c, "stat",
               IF Len(parts) >= 4 THEN io_errors(c.f, parts[4]) ELSE c.f, FALSE)

diskstats_probe(h, c, device_base) ==
    IF is_some(c.f.smart_status) THEN c
    ELSE LET data == read_to_string(h, "/proc/diskstats")
             rows == IF is_some(data)
                        THEN {i \in 1..Len(data[1]) :
                                /\ Len(split_whitespace(data[1][i])) >= 14
                                /\ split_whitespace(data[1][i])[3] = device_base}
                        ELSE {}
         IN after_probe(c, "diskstats",
               IF rows = {} THEN c.f
               ELSE io_errors(c.f, split_whitespace(
                        data[1][CHOOSE i \in rows : \A j \in rows : i <= j])[12]),
               FALSE)

dmesg_probe(h, c, device_base) ==
    after_probe(c, "dmesg",
       set_if(is_some(h.dmesg) /\ \E i \in 1..Len(h.dmesg[1]) :
                 /\ contains(to_lowercase(h.dmesg[1][i]), to_lowercase(device_base))
                 /\ \/ contains(to_lowercase(h.dmesg[1][i]), "error")
                    \/ contains(to_lowercase(h.dmesg[1][i]), "fail")
                    \/ contains(to_lowercase(h.dmesg[1][i]), "warning")
                    \/ contains(to_lowercase(h.dmesg[1][i]), "i/o error"),
              c.f, "smart_status", Some("WARNING")),
       FALSE)

fsck_probe(h, c) ==
    after_probe(c, "fsck",
       set_if(/\ is_some(h.fsck) /\ ~h.fsck[1].success /\ h.fsck[1].utf8
              /\ \/ contains(h.fsck[1].stderr, "error")
                 \/ contains(h.fsck[1].stderr, "corruption"),
              c.f, "smart_status", Some("WARNING")),
       FALSE)

\* the identification files of the generic stage
kernel_sysfs(h, c, sysfs_path) ==
    LET model == read_to_string(h, sysfs_path \o "/model")
        serial == read_to_string(h, sysfs_path \o "/serial")
        vendor == read_to_string(h, sysfs_path \o "/vendor")
        f1 == set_if(is_some(model), c.f, "model", Some(trimmed(model[1])))
        f2 == set_if(is_some(serial), f1, "serial_number", Some(trimmed(serial[1])))
    IN after_probe(c, "sysfs",
                   set_if(is_some(vendor), f2, "brand", Some(trimmed(vendor[1]))), FALSE)

\* the kernel log and the read-only file system check run, one after the
\* other, when the probes before them gave no status
kernel_end(h, c, device_base) ==
    IF is_some(c.f.smart_status) THEN [c EXCEPT !.returned = TRUE]
    ELSE return_ok(fsck_probe(h, dmesg_probe(h, c, device_base)))

\* the generic kernel stage, which ends the function
kernel_stage(h, c, device_base) ==
    IF c.returned THEN c
    ELSE IF ~exists(h, "/sys/block/" \o device_base \o "/device")
       THEN after_probe([c EXCEPT !.health_method = "kernel"], "sysfs", c.f, TRUE)
       ELSE LET sysfs_path == "/sys/block/" \o device_base \o "/device"
                c0 == kernel_sysfs(h, [c EXCEPT !.health_method = "kernel"], sysfs_path)
                c1 == smart_attributes_probe(h, c0, sysfs_path)
                c2 == stat_probe(h, c1, device_base)
                c3 == diskstats_probe(h, c2, device_base)
            IN kernel_end(h, c3, device_base)

\* /proc/mounts: the source of the first line whose second field is disk_name
found_device(h, disk_name) ==
    LET hits == IF is_some(h.mounts)
                   THEN {i \in 1..Len(h.mounts[1]) :
                           h.mounts[1][i].mount_point = disk_name}
                   ELSE {}
    IN IF hits = {} THEN None
       ELSE Some(h.mounts[1][CHOOSE i \in hits : \A j \in hits : i <= j].source)

\* the device of disk_name, or None when there is none under /dev/
resolve_device(h, disk_name) ==
    IF /\ is_some(found_device(h, disk_name))
       /\ starts_with(found_device(h, disk_name)[1], "/dev/")
       THEN found_device(h, disk_name) ELSE None

\* the device without its partition suffix
device_base(device_name) ==
    LET name == last(split(device_name, "/"))
    IN IF starts_with(name, "mmcblk")
          THEN "/dev/" \o take_while_not(name, Digits \ {"0"})
       ELSE IF starts_with(name, "nvme")
          THEN "/dev/" \o split(name, "p")[1]
       ELSE IF starts_with(name, "sd") \/ starts_with(name, "hd")
          THEN "/dev/" \o take_while(name, Letters)
       ELSE device_name

raid_device(device_name) == contains(device_name, "md") \/ contains(device_name, "dm-")

\* the tuple a call returns, out of its final state
SmartResult(c, is_raid) ==
    [smart_status |-> c.f.smart_status, serial_number |-> c.f.serial_number,
     brand |-> c.f.brand, model |-> c.f.model, is_raid |-> is_raid,
     power_on_hours |-> c.f.power_on_hours,
     reallocated_sectors |-> c.f.reallocated_sectors,
     temperature |-> c.f.temperature, pending_sectors |-> c.f.pending_sectors,
     uncorrectable_sectors |-> c.f.uncorrectable_sectors,
     health_method |-> c.health_method]

\* one call of linux::get_smart_status on host h: the resolved device, the
\* final state of the call and the tuple returned
linux_stages(h, base) ==
    LET c1 == smartctl_stage(h, Call(NoFindings, "unknown", <<>>, FALSE), base)
        c2 == mmc_stage(h, c1, base)
    IN kernel_stage(h, c2, base)

linux_result(device, c) ==
    [device |-> device, call |-> c,
     result |-> SmartResult(c, IF is_some(device) THEN raid_device(device[1]) ELSE FALSE)]

linux_call(h, disk_name) ==
    IF is_none(resolve_device(h, disk_name))
       THEN linux_result(None, Call(NoFindings, "unknown", <<>>, FALSE))
       ELSE linux_result(resolve_device(h, disk_name),
                         linux_stages(h, device_base(resolve_device(h, disk_name)[1])))

-----------------------------------------------------------------------------
(* windows::get_smart_status and the wrapper of system.rs *)

\* the lines of smartctl output the Windows parser reads
identity_line_win(f, line) ==
    LET f1 == IF starts_with(line, "Device Model:") \/ starts_with(line, "Model Number:")
                 THEN [f EXCEPT !.model = Some(after_colon(line))] ELSE f
        f2 == IF starts_with(line, "Serial Number:")
                 THEN [f1 EXCEPT !.serial_number = Some(after_colon(line))] ELSE f1
    IN IF starts_with(line, "Vendor:")
          THEN [f2 EXCEPT !.brand = Some(after_colon(line))] ELSE f2

parse_line_win(f, raw) ==
    LET line == trim(raw)
    IN identity_line_win(health_status_line(health_line(f, line), line), line)

RECURSIVE parse_output_win(_, _, _)
parse_output_win(f, lines, k) ==
    IF k > Len(lines) THEN f
    ELSE parse_output_win(parse_line_win(f, lines[k]), lines, k + 1)

\* the smartctl commands tried on Windows: the binary and the "-d" type
smartctl_commands ==
    <<[binary |-> "smartctl", type |-> "default"],
      [binary |-> "C:\\Program Files\\smartmontools\\bin\\smartctl.exe", type |-> "default"],
      [binary |-> "smartctl", type |-> "auto"],
      [binary |-> "C:\\Program Files\\smartmontools\\bin\\smartctl.exe", type |-> "auto"]>>

RECURSIVE smartctl_commands_win(_, _, _)
\* the loop over the commands from the k-th on; the locals are fresh in
\* every pass
smartctl_commands_win(h, c, k) ==
    IF k > Len(smartctl_commands) \/ c.returned THEN c
    ELSE smartctl_commands_win(h,
            after_smartctl(c, "smartctl " \o smartctl_commands[k].type, h.smartctl[k],
                IF accepted(h.smartctl[k])
                   THEN parse_output_win(NoFindings, h.smartctl[k].lines, 1)
                   ELSE NoFindings),
            k + 1)

\* the drive letter maps to a physical disk index
disk_index(h) ==
    IF /\ h.ps_index.ran /\ h.ps_index.code = 0 /\ h.ps_index.utf8
       /\ ~starts_with(trimmed(h.ps_index.lines), "ERROR")
       /\ ~contains(trimmed(h.ps_index.lines), "NOT_FOUND")
       THEN Some(trimmed(h.ps_index.lines)) ELSE None

smartctl_stage_win(h, c) ==
    IF h.smartctl_available /\ is_some(disk_index(h))
       THEN smartctl_commands_win(h, c, 1)
       ELSE c

health_query_errors ==
    {"LOGICAL_DISK_NOT_FOUND", "PARTITION_NOT_FOUND", "PHYSICAL_DISK_NOT_FOUND",
     "PHYSICAL_DISK_HEALTH_NOT_FOUND"}

\* the health query gave a JSON object (h.ps_health.json: what
\* serde_json::from_str makes of the output, None when it is no JSON)
health_query(h) ==
    IF /\ h.ps_health.ran /\ h.ps_health.code = 0 /\ h.ps_health.utf8
       /\ ~starts_with(trimmed(h.ps_health.lines), "ERROR:")
       /\ trimmed(h.ps_health.lines) \notin health_query_errors
       THEN h.ps_health.json ELSE None

wmi_status(drive) ==
    LET health_status == unwrap_or(drive.HealthStatus, "Unknown")
        operational_status == unwrap_or(drive.OperationalStatus, "Unknown")
    IN IF health_status = "Healthy" /\ operational_status = "OK" THEN Some("OK")
       ELSE IF health_status = "Unhealthy" \/ operational_status # "OK" THEN Some("FAILING")
       ELSE Some("WARNING")

wmi_findings(drive) ==
    [NoFindings EXCEPT !.smart_status = wmi_status(drive),
                       !.serial_number = drive.SerialNumber,
                       !.model = drive.Model]

wmi_stage(h, c) ==
    IF c.returned THEN c
    ELSE IF is_none(health_query(h))
       THEN after_probe(c, "wmi", NoFindings, TRUE)
       ELSE after_probe(c, "wmi", wmi_findings(health_query(h)[1]), TRUE)

drive_letter(disk_name) ==
    IF Len(disk_name) >= 2 /\ char_at(disk_name, 2) = ":"
       THEN Some(to_uppercase(char_at(disk_name, 1))) ELSE None

windows_result(device, c) ==
    [device |-> device, call |-> c, result |-> SmartResult(c, FALSE)]

\* one call of windows::get_smart_status on host h, with the tuple the
\* wrapper of system.rs makes of its result: the method is always "WMI"
windows_call(h, disk_name) ==
    IF is_none(drive_letter(disk_name))
       THEN windows_result(None, Call(NoFindings, "WMI", <<>>, FALSE))
       ELSE windows_result(
               IF is_some(disk_index(h)) THEN Some("/dev/pd" \o disk_index(h)[1]) ELSE None,
               wmi_stage(h, smartctl_stage_win(h, Call(NoFindings, "WMI", <<>>, FALSE))))

\* system::get_smart_status, by the platform the program is built for
smart_call(h, disk_name) ==
    IF h.os = "linux" THEN linux_call(h, disk_name)
    ELSE IF h.os = "windows" THEN windows_call(h, disk_name)
    ELSE windows_result(None, Call(NoFindings, "unknown", <<>>, TRUE))

get_smart_status(h, disk_name) == smart_call(h, disk_name).result

\* what the collector hands to get_smart_status for a candidate
smart_input_of(h, c) == IF h.os = "windows" THEN c.mount_point ELSE c.disk_name

\* the call is made and returns
GetSmartStatus ==
    /\ pc = "call"
    /\ smart_out' = Some(smart_call(host, smart_input))
    /\ pc' = "called"
    /\ UNCHANGED <<host, smart_input, load_vars, smtp_vars, enum_vars>>
    /\ UNCHANGED <<cfg, cli, disk_candidates, probe_env, probe, probe_ret,
                   deadline, smart_results, finish_order, disks,
                   report_calls, mail_body, json_alerts, exit_code>>

-----------------------------------------------------------------------------
(* Runs *)

Serials == <<"S1", "S2", "S3", "S4">>

\* what get_smart_status can hand back for candidate i
ProbeOk(i) ==
    SmartTuple(Some("OK"), Some(Serials[i]), FALSE, Some(0), Some(40),
               Some(0), Some(0), "smartmontools")
ProbeUnresolved == EmptyTuple("unknown")
ProbeStatus(st, method) ==
    SmartTuple(Some(st), None, FALSE, None, None, None, None, method)

CollectOutputs(i) == {ProbeOk(i), ProbeUnresolved}

AlertOutputs ==
    {ProbeStatus("OK", "smartmontools"), ProbeStatus("WARNING", "kernel"),
     ProbeStatus("FAILING", "smartmontools")}

ReportOutputs ==
    {ProbeStatus("OK", "kernel"),
     ProbeStatus("WARNING", "kernel"),
     ProbeStatus("FAILING", "smartmontools"),
     SmartTuple(Some("OK"), None, FALSE, Some(0), Some(TEMP_WARN), Some(0),
                Some(0), "smartmontools"),
     SmartTuple(Some("OK"), None, TRUE, Some(1), None, None, None,
                "smartmontools"),
     SmartTuple(Some("OK"), None, FALSE, Some(0), None, Some(1), None,
                "smartmontools"),
     SmartTuple(Some("OK"), None, FALSE, None, None, Some(0), Some(1),
                "smartmontools"),
     SmartTuple(Some("OK"), None, FALSE, Some(0), Some(TEMP_WARN + 1),
                Some(0), Some(0), "smartmontools")}

\* <<available, total>>: 5 %, 10 %, 80 % free
Spaces == {<<5, 100>>, <<1, 10>>, <<80, 100>>}
CollectSpaces == {<<5, 100>>, <<80, 100>>}

Thresholds == {None, Some(80)}

CliModes ==
    {Cli(FALSE, FALSE, FALSE), Cli(TRUE, FALSE, FALSE),
     Cli(TRUE, FALSE, TRUE), Cli(FALSE, TRUE, FALSE)}

CfgCollect ==
    {Config(TRUE, None, None, None, h, None) : h \in {None, Some(FALSE)}}

CfgAlert ==
    {Config(TRUE, t, u, d, h, s) :
        t \in Thresholds, u \in {None, Some(TRUE)}, d \in {None, Some(TRUE)},
        h \in {None, Some(FALSE)}, s \in {None, Some(FALSE)}}

CfgSmtp == {Config(TRUE, t, None, None, None, None) : t \in Thresholds}

CfgReport ==
    {Config(m, t, None, None, h, None) :
        m \in BOOLEAN, t \in Thresholds, h \in {None, Some(FALSE)}}

Candidates(n, SpaceSet) ==
    {[i \in 1..n |-> Candidate(i, s[i][1], s[i][2])] : s \in [1..n -> SpaceSet]}

NoOutput ==
    /\ report_calls = <<>>
    /\ mail_body = None
    /\ json_alerts = None
    /\ exit_code = None

\* the configuration is loaded; no retry loop and no probe call is followed
Loaded == config_file = ConfigFile(Some(cfg), None, None)

NoSmtp ==
    /\ attempt = 0
    /\ smtp_log = <<>>
    /\ smtp_result = None

NoCall ==
    /\ host = None
    /\ smart_input = None
    /\ smart_out = None

\* the enumeration is not followed: the candidates are given
NoEnumeration ==
    /\ platform = None
    /\ sysinfo_disks = <<>>
    /\ excluded_not_found = None

\* main enters get_monitored_disks with the candidates enumerated
Unstarted(n, SpaceSet, env) ==
    /\ cli \in CliModes
    /\ disk_candidates \in Candidates(n, SpaceSet)
    /\ probe_env = [i \in 1..n |-> env[i]]
    /\ probe = [i \in 1..n |-> "idle"]
    /\ probe_ret = [i \in 1..n |-> None]
    /\ deadline = [i \in 1..n |-> FALSE]
    /\ smart_results = [i \in 1..n |-> None]
    /\ finish_order = <<>>
    /\ disks = <<>>
    /\ NoOutput
    /\ NoSmtp
    /\ NoEnumeration

InitStart(CfgSet, n, SpaceSet, env) ==
    /\ cfg \in CfgSet
    /\ Unstarted(n, SpaceSet, env)
    /\ NoCall
    /\ Loaded
    /\ pc = "start"

Senders == {"ops@example.org", "@", "ops"}
Recipients == {"a@example.org", "a@example.org, b"}
EnvSenders == {None, Some("root@example.org"), Some(" "), Some("root")}

ConfigFiles ==
    {ConfigFile(None, None, None)} \cup
    {ConfigFile(Some([Config(TRUE, None, None, None, h, None)
                        EXCEPT !.email_from = f, !.email_to = t]), e, None) :
        f \in Senders, t \in Recipients, e \in EnvSenders,
        h \in {None, Some(FALSE)}}

\* main starts: nothing is loaded yet
InitLoad ==
    /\ config_file \in ConfigFiles
    /\ cfg = None
    /\ \E n \in 0..MaxExitDisks :
          Unstarted(n, {<<5, 100>>}, [i \in 1..n |-> CollectOutputs(i)])
    /\ pc = "load"
    /\ NoCall

\* smartctl outputs
NotRun == Output(FALSE, 0, TRUE, <<>>)
ExitError == Output(TRUE, 2, TRUE, <<"Smartctl open device: /dev/sda failed: Permission denied">>)
NotUtf8 == Output(TRUE, 0, FALSE, <<>>)
NoLines == Output(TRUE, 0, TRUE, <<>>)
Passed ==
    Output(TRUE, 0, TRUE,
           <<"Device Model:     WDC WD10EZEX", "Serial Number:    WD-1",
             "SMART overall-health self-assessment test result: PASSED">>)
Failed ==
    Output(TRUE, 4, TRUE,
           <<"SMART overall-health self-assessment test result: FAILED!">>)
Undecided ==
    Output(TRUE, 0, TRUE,
           <<"SMART overall-health self-assessment test result: UNKNOWN">>)
HealthOk == Output(TRUE, 0, TRUE, <<"Vendor: SEAGATE", "SMART Health Status: OK">>)
HealthBad ==
    Output(TRUE, 4, TRUE,
           <<"SMART Health Status: FAILURE PREDICTION THRESHOLD EXCEEDED">>)
ModelOnly == Output(TRUE, 0, TRUE, <<"Model Number: Samsung SSD 970">>)
AttributesOnly ==
    Output(TRUE, 0, TRUE,
           <<"Reallocated_Sector_Ct: 5", "Temperature_Celsius: 41">>)
VendorOnly == Output(TRUE, 0, TRUE, <<"Vendor: ACME">>)
DeviceOnly == Output(TRUE, 0, TRUE, <<"Device: SanDisk Ultra">>)
TwoVerdicts ==
    Output(TRUE, 4, TRUE,
           <<"SMART Health Status: OK",
             "SMART overall-health self-assessment test result: FAILED!">>)

FirstOutputs ==
    {NotRun, ExitError, NotUtf8, NoLines, Passed, Failed, Undecided, HealthOk,
     HealthBad, ModelOnly, AttributesOnly, VendorOnly, DeviceOnly,
     TwoVerdicts}
LaterOutputs == {NotRun, Failed, AttributesOnly}

KernelLogs ==
    {None, Some(<<>>),
     Some(<<"mmc0: Timeout waiting for hardware interrupt.",
            "mmcblk0: error -110 transferring data",
            "blk_update_request: I/O error, dev sda, sector 2048">>)}

Fsck == [success |-> FALSE, utf8 |-> TRUE, stderr |-> "fsck: error 2 while executing fsck.ext4"]

\* sysfs and procfs of a host with the disks sda and mmcblk0
Sysfs ==
    [dirs |-> {"/sys/block/sda/device", "/sys/block/sda/queue",
               "/sys/block/mmcblk0/device"},
     files |-> ("/sys/block/sda/device/model" :> <<"WDC WD10EZEX    ">>) @@
               ("/sys/block/sda/stat" :> <<"  120   4  960  31  0 0 0 0 0 20 31">>) @@
               ("/sys/block/mmcblk0/device/name" :> <<"SD32G">>) @@
               ("/sys/block/mmcblk0/device/cid" :> <<"0353445344333247801b2c3d4e012300">>) @@
               ("/sys/block/mmcblk0/device/manfid" :> <<"0x000003">>) @@
               ("/proc/diskstats" :>
                  <<"   8   0 sda 120 4 960 31 0 0 0 0 0 20 31 0 0 0 0">>)]

NoSysfs == [dirs |-> {}, files |-> ("/proc/version" :> <<"Linux">>)]

MountTable ==
    <<Mount("/dev/sda1", "/"), Mount("/dev/sdb1", "/home"),
      Mount("/dev/mmcblk0p1", "/boot"), Mount("/dev/nvme0n1p2", "/var"),
      Mount("/dev/md0", "/srv"), Mount("/dev/dm-0", "/opt"),
      Mount("tmpfs", "/tmp"), Mount("/dev/vda1", "/data"),
      Mount("/dev/hda2", "/mnt/ide"), Mount("/dev/mmcblk1p2", "/mnt/sd"),
      Mount("/dev/sdc", "/mnt/disk"), Mount("/dev/nvme1n1", "/mnt/nvme")>>

LinuxHost(mounts, available, first, later, dmesg, fs) ==
    [os |-> "linux", mounts |-> mounts, smartctl_available |-> available,
     smartctl |-> [t \in {"default", "auto", "sat", "nvme"} |->
                     IF t = "default" THEN first ELSE later],
     dmesg |-> dmesg, fsck |-> Some(Fsck), files |-> fs.files, dirs |-> fs.dirs]

LinuxHosts ==
    {LinuxHost(m, a, r1, r2, d, fs) :
        m \in {None, Some(MountTable)}, a \in BOOLEAN, r1 \in FirstOutputs,
        r2 \in LaterOutputs, d \in KernelLogs, fs \in {Sysfs, NoSysfs}}

\* what the caller may pass on Linux: mount points, and device names
LinuxInputs ==
    {"/", "/boot", "/var", "/srv", "/opt", "/tmp", "/data", "/mnt/ide",
     "/mnt/sd", "/mnt/disk", "/mnt/nvme", "/missing", "/dev/sda1"}

PsNotRun == [ran |-> FALSE, code |-> 0, utf8 |-> TRUE, lines |-> <<>>, json |-> None]
PsFound(text, json) ==
    [ran |-> TRUE, code |-> 0, utf8 |-> TRUE, lines |-> <<text>>, json |-> json]
PsExit(text) ==
    [ran |-> TRUE, code |-> 1, utf8 |-> TRUE, lines |-> <<text>>, json |-> None]

Drive(health_status, operational_status) ==
    [HealthStatus |-> health_status, OperationalStatus |-> operational_status,
     SerialNumber |-> Some("S3Z1"), Model |-> Some("Samsung SSD 860")]

IndexQueries == {PsNotRun, PsExit("PARTITION_NOT_FOUND"), PsFound("0 ", None)}

HealthQueries ==
    {PsNotRun, PsExit("PHYSICAL_DISK_HEALTH_NOT_FOUND"),
     [PsFound("", None) EXCEPT !.utf8 = FALSE],
     PsFound("ERROR: access denied", None), PsFound("not json", None),
     PsFound("{..}", Some(Drive(Some("Healthy"), Some("OK")))),
     PsFound("{..}", Some(Drive(Some("Unhealthy"), Some("OK")))),
     PsFound("{..}", Some(Drive(Some("Healthy"), Some("Degraded")))),
     PsFound("{..}", Some(Drive(Some("Warning"), Some("OK")))),
     PsFound("{..}", Some(Drive(None, None)))}

WindowsHost(available, index, first, later, health) ==
    [os |-> "windows", smartctl_available |-> available, ps_index |-> index,
     smartctl |-> [k \in 1..4 |-> IF k = 1 THEN first ELSE later],
     ps_health |-> health]

\* the index query and the health query walk the same hops: when the first
\* finds no disk, the second finds none either
WindowsHosts ==
    {WindowsHost(a, i, r1, r2, q) :
        a \in BOOLEAN, i \in IndexQueries, r1 \in FirstOutputs,
        r2 \in {NotRun, Failed}, q \in HealthQueries}

WindowsInputs == {"C:\\", "d:", "\\\\?\\Volume{1}\\", "C"}

OtherHost == [os |-> "other"]

\* get_smart_status is about to be called with smart_input on host
InitCall ==
    /\ \/ host \in LinuxHosts /\ smart_input \in LinuxInputs
       \/ host \in WindowsHosts /\ smart_input \in WindowsInputs
       \/ host = OtherHost /\ smart_input = "/"
    /\ smart_out = None
    /\ cfg = Config(TRUE, None, None, None, None, None)
    /\ Loaded
    /\ cli = Cli(FALSE, FALSE, FALSE)
    /\ Unstarted(0, {<<5, 100>>}, <<>>)
    /\ pc = "call"

\* get_monitored_disks has returned: every unit resolved in enumeration order,
\* unit i with outcome o[i] (its probe's tuple, the panic of its probe, or the
\* timeout while its probe is still running); with health checks off, the
\* disabled records
Collected(CfgSet, n, SpaceSet, Outputs) ==
    /\ cfg \in CfgSet
    /\ cli \in CliModes
    /\ disk_candidates \in Candidates(n, SpaceSet)
    /\ probe_env = [i \in 1..n |-> Outputs]
    /\ IF health_check_enabled
          THEN \E o \in [1..n -> Outputs \cup {TimeoutTuple, PanicTuple}] :
                 /\ probe = [i \in 1..n |->
                               IF o[i] = TimeoutTuple THEN "running"
                               ELSE IF o[i] = PanicTuple THEN "panicked"
                               ELSE "done"]
                 /\ probe_ret = [i \in 1..n |->
                               IF o[i] \in {TimeoutTuple, PanicTuple} THEN None
                               ELSE Some(o[i])]
                 /\ deadline = [i \in 1..n |-> o[i] = TimeoutTuple]
                 /\ smart_results = [i \in 1..n |-> Some(o[i])]
                 /\ finish_order = [i \in 1..n |-> i]
                 /\ disks = ZipDisks(disk_candidates, o)
          ELSE /\ probe = [i \in 1..n |-> "idle"]
               /\ probe_ret = [i \in 1..n |-> None]
               /\ deadline = [i \in 1..n |-> FALSE]
               /\ smart_results = [i \in 1..n |-> None]
               /\ finish_order = <<>>
               /\ disks = DisabledDisks(disk_candidates)
    /\ Loaded
    /\ NoCall
    /\ NoEnumeration

InitReturned(CfgSet, n, SpaceSet, Outputs) ==
    /\ Collected(CfgSet, n, SpaceSet, Outputs)
    /\ pc = "returned"
    /\ NoOutput
    /\ NoSmtp

\* send_system_report has built the message and the mailer, and enters the
\* retry loop
InitSmtp ==
    /\ \E n \in 1..MaxSmtpDisks : Collected(CfgSmtp, n, {<<5, 100>>}, {ProbeOk(1)})
    /\ ~cli.json /\ ~cli.smart
    /\ report_calls = <<[disks |-> disks, forced |-> cli.force_mail]>>
    /\ mail_body = Some(ReportBody(disks, cli.force_mail))
    /\ json_alerts = None
    /\ exit_code = None
    /\ attempt = 1
    /\ smtp_log = <<>>
    /\ smtp_result = None
    /\ pc = "smtp_send"

Init == \E n \in 0..MaxDisks : InitStart(CfgCollect, n, CollectSpaces, [i \in 1..n |-> CollectOutputs(i)])

InitLive == \E n \in 0..MaxLiveDisks : InitStart(CfgCollect, n, {<<5, 100>>}, [i \in 1..n |-> CollectOutputs(i)])

InitAlert == \E n \in 0..MaxAlertDisks : InitReturned(CfgAlert, n, Spaces, AlertOutputs)

InitReport == \E n \in 0..MaxReportDisks : InitReturned(CfgReport, n, Spaces, ReportOutputs)

Collect ==
    \/ LaunchUnits
    \/ CollectDisabled
    \/ \E i \in Units : ProbeComplete(i)
    \/ \E i \in Units : ProbePanic(i)
    \/ \E i \in Units : TimerElapse(i)
    \/ \E i \in Units : UnitPoll(i)
    \/ JoinAndZip

NextMain ==
    \/ ExitNoDisks
    \/ JsonOutput
    \/ SmartDisplay
    \/ ForcedMail
    \/ AlertDecision

Next == Collect \/ NextMain

Spec == Init /\ [][Next]_vars

\* the timers fire, the scheduler polls woken units and main runs on; nothing
\* makes a blocking probe return
Fairness ==
    /\ WF_vars(LaunchUnits \/ CollectDisabled)
    /\ WF_vars(\E i \in Units : TimerElapse(i))
    /\ WF_vars(\E i \in Units : UnitPoll(i))
    /\ WF_vars(JoinAndZip)
    /\ WF_vars(NextMain)

FairSpec == InitLive /\ [][Next]_vars /\ Fairness

SpecAlert == InitAlert /\ [][NextMain]_vars

SpecReport == InitReport /\ [][NextMain]_vars

NextExit == LoadConfig \/ Collect \/ NextMain

SpecExit == InitLoad /\ [][NextExit]_vars

\* either one call of get_smart_status is followed, or what main does with a
\* returned list
InitAdvisory == InitCall \/ InitReport

NextAdvisory == GetSmartStatus \/ NextMain

SpecAdvisory == InitAdvisory /\ [][NextAdvisory]_vars

\* the volumes sysinfo lists on a Linux host: a full root, an empty data
\* disk, a removable disk, a pseudo file system and a mount point that is
\* not UTF-8
LinuxVolumes ==
    {Volume(Some("/"), Some("/dev/sda1"), 100, 0),
     Volume(Some("/data"), Some("/dev/sdb1"), 10, 10),
     Volume(Some("/media/usb"), Some("/dev/sdc1"), 100, 80),
     Volume(Some("/proc"), Some("proc"), 0, 0),
     Volume(None, Some("/dev/sdd1"), 100, 80)}

LinuxExclusions == {"sda", " /dev/sdb1 ", ""}

\* and on a Windows host: two fixed drives, a floppy, a share and an empty
\* card reader
WindowsVolumes ==
    {Volume(Some("C:\\"), Some(""), 100, 0),
     Volume(Some("D:\\"), Some("Data"), 10, 10),
     Volume(Some("A:\\"), Some(""), 100, 80),
     Volume(Some("\\\\nas\\share"), Some("share"), 100, 80),
     Volume(Some("E:\\"), Some(""), 0, 0)}

WindowsExclusions == {"C:", "c", " "}

Lists(S, n) == UNION {[1..k -> S] : k \in 0..n}

CfgEnum(Exclusions) ==
    {[Config(TRUE, None, None, None, Some(FALSE), None)
         EXCEPT !.excluded_disks = ex] :
        ex \in {None} \cup {Some(l) : l \in Lists(Exclusions, MaxExcluded)}}

\* main has loaded the settings and enters get_monitored_disks, with health
\* checks off
InitEnum ==
    /\ \/ /\ platform = Some("linux")
          /\ sysinfo_disks \in Lists(LinuxVolumes, MaxVolumes)
          /\ cfg \in CfgEnum(LinuxExclusions)
       \/ /\ platform = Some("windows")
          /\ sysinfo_disks \in Lists(WindowsVolumes, MaxVolumes)
          /\ cfg \in CfgEnum(WindowsExclusions)
    /\ excluded_not_found = None
    /\ cli = Cli(FALSE, FALSE, FALSE)
    /\ disk_candidates = <<>>
    /\ probe_env = <<>>
    /\ probe = <<>>
    /\ probe_ret = <<>>
    /\ deadline = <<>>
    /\ smart_results = <<>>
    /\ finish_order = <<>>
    /\ disks = <<>>
    /\ NoOutput
    /\ NoSmtp
    /\ NoCall
    /\ Loaded
    /\ pc = "enumerate"

NextEnum == Enumerate \/ CollectDisabled \/ ExitNoDisks \/ AlertDecision

SpecEnum == InitEnum /\ [][NextEnum]_vars

\* the mount table the candidates were enumerated from
CandidateMounts == [i \in 1..Len(MountPoints) |-> Mount(DeviceNames[i], MountPoints[i])]

ResolveHosts ==
    {LinuxHost(Some(CandidateMounts), a, r1, NotRun, None, Sysfs) :
        a \in BOOLEAN, r1 \in {Passed, Failed, AttributesOnly}}

\* main enters get_monitored_disks on a Linux host: the probe of a candidate
\* is the call of get_smart_status with what the collector hands to it
InitResolve ==
    \E n \in 0..MaxResolveDisks :
        /\ host \in ResolveHosts
        /\ smart_input = None
        /\ smart_out = None
        /\ cfg \in CfgCollect
        /\ Unstarted(n, {<<5, 100>>},
                     [i \in 1..n |->
                        {get_smart_status(host, smart_input_of(host, Candidate(i, 5, 100)))}])
        /\ Loaded
        /\ pc = "start"

SpecResolve == InitResolve /\ [][Next]_vars

SpecCall == InitCall /\ [][GetSmartStatus]_vars

NextSmtp == SmtpSend \/ SmtpWake

\* a send returns (the transport has its own timeout) and a sleep ends
SpecSmtp == InitSmtp /\ [][NextSmtp]_vars /\ WF_vars(SmtpSend) /\ WF_vars(SmtpWake)

-----------------------------------------------------------------------------
(* Properties *)

Returned == pc \in {"returned", "done"}

Degraded(method) ==
    [smart_status |-> <<>>, serial_number |-> <<>>, brand |-> <<>>,
     model |-> <<>>, is_raid |-> FALSE, power_on_hours |-> <<>>,
     reallocated_sectors |-> <<>>, temperature |-> <<>>,
     pending_sectors |-> <<>>, uncorrectable_sectors |-> <<>>,
     health_method |-> method]

HealthFields(d) ==
    [smart_status |-> d.smart_status, serial_number |-> d.serial_number,
     brand |-> d.brand, model |-> d.model, is_raid |-> d.is_raid,
     power_on_hours |-> d.power_on_hours,
     reallocated_sectors |-> d.reallocated_sectors,
     temperature |-> d.temperature, pending_sectors |-> d.pending_sectors,
     uncorrectable_sectors |-> d.uncorrectable_sectors,
     health_method |-> d.health_method]

SpaceFields(d) ==
    [mount_point |-> d.mount_point, display_name |-> d.display_name,
     free_space_percent |-> d.free_space_percent,
     total_space |-> d.total_space, available_space |-> d.available_space,
     file_system |-> d.file_system]

HealthOn == cfg.health_check_enabled # <<FALSE>>

\* C1: a unit resolves exactly once, to one of three outcomes, each only with
\* its cause: the tuple its probe returned (the probe has returned; always so
\* when it returned and the delay has not expired), the empty tuple with
\* method "error" (the probe panicked), or the empty tuple with method
\* "timeout" (the delay expired; always so when the probe is still running).
\* A resolved unit never changes, whatever its probe does later, and the
\* returned record carries the unit's outcome.
C1_UnitOutcome ==
    /\ [](Returned /\ HealthOn =>
            \A i \in Units : HealthFields(disks[i]) = smart_results[i][1])
    /\ [][\A i \in Units :
            /\ is_some(smart_results[i]) => smart_results'[i] = smart_results[i]
            /\ (is_none(smart_results[i]) /\ is_some(smart_results'[i])) =>
                 LET r == smart_results'[i][1] IN
                 /\ \/ probe[i] = "done" /\ r = probe_ret[i][1]
                    \/ probe[i] = "panicked" /\ r = Degraded("error")
                    \/ deadline[i] /\ r = Degraded("timeout")
                 /\ (probe[i] = "done" /\ ~deadline[i]) => r = probe_ret[i][1]
                 /\ (probe[i] = "panicked" /\ ~deadline[i]) => r = Degraded("error")
                 /\ probe[i] = "running" => r = Degraded("timeout")]_vars

\* a probe returned after its unit had timed out, and the record still says timeout
C1_Witness ==
    /\ Returned
    /\ \E i \in Units :
          /\ probe[i] = "done"
          /\ smart_results[i] = <<Degraded("timeout")>>
          /\ HealthFields(disks[i]) = Degraded("timeout")

\* C2: a volume whose own probe returned and whose own delay never expired
\* gets its probe's tuple, whatever happened to the other units; every
\* candidate gets a record, and only an empty candidate set ends the run
\* with exit code 1.
C2_UnitsIsolated ==
    /\ Returned => Len(disks) = Len(disk_candidates)
    /\ (Returned /\ HealthOn) =>
          \A j \in Units :
             (probe[j] = "done" /\ ~deadline[j]) =>
                 HealthFields(disks[j]) = probe_ret[j][1]
    /\ exit_code = <<1>> => disk_candidates = <<>>

\* one unit timed out or panicked, another kept its own probe's tuple
C2_Witness ==
    /\ pc = "done"
    /\ exit_code = <<0>>
    /\ \E i, j \in Units :
          /\ i # j
          /\ HealthFields(disks[i]) \in {Degraded("timeout"), Degraded("error")}
          /\ probe[j] = "done" /\ ~deadline[j]
          /\ HealthFields(disks[j]) = probe_ret[j][1]
          /\ disks[j].smart_status = <<"OK">>

\* C3: the list exists only once every unit has resolved; it has one record
\* per candidate, in enumeration order, the i-th made of the i-th candidate's
\* space data and the i-th unit's outcome.
C3_ZipByPosition ==
    Returned =>
       /\ Len(disks) = Len(disk_candidates)
       /\ \A i \in Units : SpaceFields(disks[i]) = SpaceFields(disk_candidates[i])
       /\ HealthOn =>
             \A i \in Units :
                /\ is_some(smart_results[i])
                /\ HealthFields(disks[i]) = smart_results[i][1]

\* unit 2 resolved before unit 1, with different outcomes
C3_Witness ==
    /\ Returned
    /\ Len(disks) = 2
    /\ finish_order = <<2, 1>>
    /\ smart_results[1] # smart_results[2]
    /\ disks[1].free_space_percent # disks[2].free_space_percent

\* C4: with the timers firing and the scheduler running, a collection that
\* has started always returns and the run goes on to its end (in the default
\* mode through the alert decision), whether or not the blocking probes ever
\* return.
C4_CollectionTerminates == (pc = "collecting") ~> (pc = "done")

\* the run is over, the decision made, and a probe is still running, abandoned
C4_Witness ==
    /\ pc = "done"
    /\ ~cli.json /\ ~cli.smart /\ ~cli.force_mail
    /\ report_calls # <<>>
    /\ \E i \in Units :
          /\ probe[i] = "running"
          /\ HealthFields(disks[i]) = Degraded("timeout")

Thr == IF cfg.threshold_percent = <<>> THEN 10 ELSE cfg.threshold_percent[1]
Below(d) == d.available_space * 100 < Thr * d.total_space
AtThreshold(d) == d.available_space * 100 = Thr * d.total_space
FailOrWarn(d) == d.smart_status \in {<<"FAILING">>, <<"WARNING">>}
Unknown(d) == d.smart_status = <<>>

AnyBelow == \E i \in 1..Len(disks) : Below(disks[i])
AnyFailOrWarn == \E i \in 1..Len(disks) : FailOrWarn(disks[i])
AnyUnknown == \E i \in 1..Len(disks) : Unknown(disks[i])

DecisionReached == pc = "done" /\ disks # <<>> /\ ~cli.json /\ ~cli.smart
Forced == cli.force_mail
DebugOn == cfg.debug = <<TRUE>>
SmartAlertsOn == cfg.smart_enabled # <<FALSE>>
UnknownOn == cfg.send_mail_on_unknown_status = <<TRUE>>
Sent == report_calls # <<>>

\* C5 as stated: the report is sent iff forced, or a volume is below the
\* threshold, or SMART alerting is on and a status is FAILING or WARNING, or a
\* status is unknown and alert-on-unknown is on, or debug is on.
C5_AsStated ==
    DecisionReached =>
       (Sent <=> \/ Forced
                 \/ AnyBelow
                 \/ (SmartAlertsOn /\ AnyFailOrWarn)
                 \/ (AnyUnknown /\ UnknownOn)
                 \/ DebugOn)

\* C5 amended: the report is sent iff forced, or a volume is below the
\* threshold, or SMART alerting is on and (a status is FAILING or WARNING, or a
\* status is unknown and alert-on-unknown is on), or debug is on.
C5_AlertTrigger ==
    DecisionReached =>
       (Sent <=> \/ Forced
                 \/ AnyBelow
                 \/ (SmartAlertsOn /\ (AnyFailOrWarn \/ (AnyUnknown /\ UnknownOn)))
                 \/ DebugOn)

\* a report sent for an unknown status alone
C5_Witness ==
    /\ DecisionReached /\ Sent
    /\ ~Forced /\ ~DebugOn /\ ~AnyBelow /\ ~AnyFailOrWarn
    /\ AnyUnknown /\ UnknownOn /\ SmartAlertsOn

\* C6: wherever the threshold is compared (alert decision, summary count,
\* status indicator, JSON alerts) a volume counts as low space exactly when
\* its free percent is strictly below the threshold: one exactly at the
\* threshold never does and never triggers by itself, one below always does.
C6_StrictThreshold ==
    /\ (DecisionReached /\ ~Forced /\ ~DebugOn
          /\ \A i \in 1..Len(disks) : disks[i].smart_status = <<"OK">>)
         => (Sent <=> AnyBelow)
    /\ mail_body # <<>> =>
         /\ mail_body[1].low_space_disks =
               Cardinality({i \in 1..Len(disks) : Below(disks[i])})
         /\ \A i \in 1..Len(disks) :
               (mail_body[1].indicators[i] = "[LOW SPACE]") <=> Below(disks[i])
    /\ json_alerts # <<>> =>
         \A i \in 1..Len(disks) :
            (\E k \in 1..Len(json_alerts[1]) :
                json_alerts[1][k] =
                   [disk |-> disks[i].display_name, kind |-> "Low space"])
              <=> Below(disks[i])

\* a report over a volume exactly at the threshold and one below it
C6_Witness ==
    /\ pc = "done" /\ mail_body # <<>> /\ Len(disks) = 2
    /\ AtThreshold(disks[1]) /\ Below(disks[2])
    /\ mail_body[1].low_space_disks = 1
    /\ mail_body[1].indicators[1] # "[LOW SPACE]"
    /\ mail_body[1].indicators[2] = "[LOW SPACE]"

Positive(o) == o # <<>> /\ o[1] > 0

ExpectedIndicator(d) ==
    IF Below(d) THEN "[LOW SPACE]"
    ELSE IF d.smart_status \notin {<<>>, <<"OK">>} THEN "[SMART FAILING]"
    ELSE IF \/ Positive(d.reallocated_sectors)
            \/ Positive(d.pending_sectors)
            \/ Positive(d.uncorrectable_sectors)
            \/ (d.temperature # <<>> /\ d.temperature[1] > 55)
         THEN "[SMART WARNING]"
    ELSE "[OK]"

\* C7: the status indicator of every volume in a report follows the
\* precedence low space > SMART status known and not OK > a sector count above
\* 0 or a temperature above 55 > OK; 5 % free at threshold 10 % with SMART OK
\* is low space, 80 % free with status FAILING is SMART failing.
C7_IndicatorPrecedence ==
    mail_body # <<>> =>
       \A i \in 1..Len(disks) :
          LET d == disks[i]
              ind == mail_body[1].indicators[i]
          IN  /\ ind = ExpectedIndicator(d)
              /\ (Thr = 10 /\ d.available_space = 5 /\ d.total_space = 100
                    /\ d.smart_status = <<"OK">>) => ind = "[LOW SPACE]"
              /\ (Thr = 10 /\ d.available_space = 80 /\ d.total_space = 100
                    /\ d.smart_status = <<"FAILING">>) => ind = "[SMART FAILING]"

\* a report over a volume that is both low on space and FAILING
C7_Witness ==
    /\ mail_body # <<>>
    /\ \E i \in 1..Len(disks) :
          /\ Below(disks[i])
          /\ disks[i].smart_status = <<"FAILING">>
          /\ mail_body[1].indicators[i] = "[LOW SPACE]"

\* C8: with health checks disabled no unit is launched and no probe runs;
\* every record has no status, no attributes, is_raid false and method
\* "disabled", and the space fields of its candidate.
C8_DisabledBypass ==
    ~HealthOn =>
       /\ \A i \in Units : probe[i] = "idle" /\ smart_results[i] = <<>>
       /\ finish_order = <<>>
       /\ Returned =>
            /\ Len(disks) = Len(disk_candidates)
            /\ \A i \in Units :
                  /\ HealthFields(disks[i]) = Degraded("disabled")
                  /\ SpaceFields(disks[i]) = SpaceFields(disk_candidates[i])

\* a run over two volumes that ended with health checks disabled
C8_Witness == pc = "done" /\ ~HealthOn /\ Len(disks) = 2 /\ exit_code = <<0>>

\* C9 as stated: with health checks disabled, a run that is neither forced
\* nor in debug mode sends a report iff some volume is below the threshold.
C9_AsStated ==
    (DecisionReached /\ ~HealthOn /\ ~Forced /\ ~DebugOn) => (Sent <=> AnyBelow)

\* C10: send_system_report is called at most once in a run, and with the
\* full list of monitored volumes.
C10_OneFullReport ==
    /\ Len(report_calls) <= 1
    /\ \A k \in 1..Len(report_calls) : report_calls[k].disks = disks

\* a report triggered by one of two volumes
C10_Witness ==
    /\ Sent /\ ~Forced /\ ~DebugOn /\ Len(disks) = 2
    /\ Below(disks[1])
    /\ ~Below(disks[2]) /\ disks[2].smart_status = <<"OK">>
    /\ report_calls[1].disks = disks

-----------------------------------------------------------------------------
(* The SMTP retry loop *)

Sends == {i \in 1..Len(smtp_log) : smtp_log[i].ev \in {"ok", "err"}}

LastEvent == smtp_log[Len(smtp_log)]

RetryLogShape ==
    /\ Cardinality(Sends) <= 3
    /\ (pc = "smtp_returned") <=> (smtp_result # None)
    /\ \A i \in 1..Len(smtp_log) :
         smtp_log[i].ev = "ok" =>
            /\ i = Len(smtp_log)
            /\ smtp_result = Some("Ok")
    /\ smtp_result = Some("Ok") => LastEvent.ev = "ok"
    /\ smtp_result = Some("Err") =>
         /\ \E i \in Sends : smtp_log[i].ev = "err" /\ \A j \in Sends : j <= i
         /\ Cardinality(Sends) = 3 \/ LastEvent.ev = "no_delay"
    /\ \A i \in 1..Len(smtp_log) :
         smtp_log[i].ev = "sleep" =>
            /\ i > 1 /\ smtp_log[i - 1].ev = "err"
            /\ i < Len(smtp_log) => smtp_log[i + 1].ev \in {"ok", "err"}
            /\ smtp_result # None => i < Len(smtp_log)
    /\ \A i \in Sends : i > 1 => smtp_log[i - 1].ev = "sleep"

\* C11: the SMTP send is attempted at most 3 times per report; the loop stops
\* at the first successful attempt and returns Ok; it returns Err only after a
\* failed attempt, when 3 attempts were made or the backoff policy gave no
\* delay; a wait lies between consecutive attempts and never after the last
\* one; and the loop always terminates.
C11_BoundedRetry ==
    /\ []RetryLogShape
    /\ (pc = "smtp_send") ~> (pc = "smtp_returned")

C11_Witness ==
    /\ pc = "smtp_returned"
    /\ smtp_result = Some("Err")
    /\ Cardinality(Sends) = 3
    /\ Cardinality({i \in 1..Len(smtp_log) : smtp_log[i].ev = "sleep"}) = 2

-----------------------------------------------------------------------------
(* Exit codes *)

ConfigRejected ==
    /\ is_none(load_config(config_file))
    /\ disks = <<>>
    /\ \A i \in Units : probe[i] = "idle" /\ smart_results[i] = None

\* the retry loop was entered and returned Err
DeliveryFailed ==
    /\ report_calls # <<>>
    /\ cfg.mail_enabled
    /\ message_built(cfg)

\* C12: the run exits non-zero only for a configuration error (exit 2, before
\* any enumeration or probe), an empty candidate set (exit 1, before any
\* report), a report serialization failure (exit 1), or report delivery
\* failing after retries (exit 2); degraded per-volume results alone never
\* give a non-zero exit, and every other run exits 0.
C12_AsStated ==
    pc = "done" =>
       /\ exit_code \in {Some(0), Some(1), Some(2)}
       /\ exit_code = Some(2) => ConfigRejected \/ DeliveryFailed
       /\ exit_code = Some(1) => disks = <<>> /\ report_calls = <<>>

-----------------------------------------------------------------------------
(* The probe chain *)

Called == pc = "called"
Out == smart_out[1]

\* the call found no device: no line of the mount table has the input as its
\* second field, or the source is not under /dev/; on Windows the input has
\* no drive letter, or the query for the disk index failed
Unresolved == Called /\ host.os \in {"linux", "windows"} /\ is_none(Out.device)

\* C13: when the device of a volume cannot be resolved, the probe returns
\* status UNKNOWN (no status) with method "error".
C13_AsStated ==
    Unresolved =>
       /\ is_none(Out.result.smart_status)
       /\ Out.result.health_method = "error"

\* the part of C13 the code keeps: no status, and the label of the platform
C13_Unresolved ==
    Unresolved /\ is_none(drive_letter(smart_input)) =>
       /\ is_none(Out.result.smart_status)
       /\ Out.result.health_method = IF host.os = "linux" THEN "unknown" ELSE "WMI"

\* the probe after which the call returned, and the method the specification
\* gives to its stage
Producer == Out.call.trace[Len(Out.call.trace)].probe

StageMethod(name) ==
    IF starts_with(name, "smartctl") THEN "smartmontools"
    ELSE IF name = "wmi" THEN "WMI"
    ELSE "kernel"

HasStatus == Called /\ is_some(Out.result.smart_status)

\* C14: the method field of every result names the stage that produced the
\* returned status: smartmontools exactly for a status out of smartctl output,
\* kernel exactly for the MMC or generic kernel fallback, WMI exactly for the
\* Windows health query, on both platforms.
C14_AsStated ==
    HasStatus => Out.result.health_method = StageMethod(Producer)

\* the part of C14 the code keeps: the labels of the Linux build
C14_Linux ==
    HasStatus /\ host.os = "linux" =>
        Out.result.health_method = StageMethod(Producer)

Trace == Out.call.trace

\* the documented order of the probes: the smartctl variants, the MMC stage,
\* the generic kernel stage; on Windows the smartctl commands, then the
\* health query
Rank(name) ==
    CASE name = "smartctl default" -> 1
      [] name = "smartctl auto" -> 2
      [] name = "smartctl sat" -> 3
      [] name = "smartctl nvme" -> 3
      [] name = "dmesg mmc" -> 4
      [] name = "sysfs" -> 5
      [] name = "smart_attributes" -> 6
      [] name = "stat" -> 7
      [] name = "diskstats" -> 8
      [] name = "dmesg" -> 9
      [] name = "fsck" -> 10
      [] name = "wmi" -> 11

\* the output the i-th probe of the call read, when it was a smartctl run
SmartctlOutput(i) ==
    IF host.os = "linux"
       THEN host.smartctl[SubSeq(Trace[i].probe, 10, Len(Trace[i].probe))]
       ELSE host.smartctl[i]

InOrder ==
    \A i, j \in 1..Len(Trace) :
        i < j => IF host.os = "linux"
                    THEN Rank(Trace[i].probe) < Rank(Trace[j].probe)
                    ELSE Rank(Trace[i].probe) <= Rank(Trace[j].probe)

\* a smartctl run that could not start, ended with another code than 0 or 4,
\* or printed no UTF-8 is followed by the next probe
Advances ==
    \A i \in 1..Len(Trace) :
        starts_with(Trace[i].probe, "smartctl") /\ ~accepted(SmartctlOutput(i))
            => i < Len(Trace) /\ is_none(Trace[i].smart_status)

\* no probe runs after one that left a status, and that status is returned
EarlyExit ==
    \A i \in 1..Len(Trace) :
        is_some(Trace[i].smart_status) =>
            i = Len(Trace) /\ Out.result.smart_status = Trace[i].smart_status

\* C15: the probes of a call run in the documented order; a probe that cannot
\* run, exits with another code than 0 or 4, or prints no readable output is
\* inconclusive and the next probe runs; after the first probe that leaves a
\* status no probe runs and the status is returned unchanged.
C15_OrderedFallback ==
    Called => InOrder /\ Advances /\ EarlyExit

\* a call whose first smartctl run failed to start, whose later runs gave no
\* status, and which returned the status of the MMC stage
C15_Witness ==
    /\ Called /\ host.os = "linux"
    /\ Len(Trace) = 4
    /\ ~accepted(SmartctlOutput(1))
    /\ Trace[4].probe = "dmesg mmc"
    /\ Out.result.smart_status = Some("OK")

\* the call resolved a device
Resolved == Called /\ host.os = "linux" /\ is_some(Out.device)

\* the kernel's directory of the base device, /sys/block/<name>/device
SysfsEntry ==
    exists(host, "/sys/block/" \o last(split(device_base(Out.device[1]), "/")) \o "/device")

\* C16: for a resolved device the call never returns without a status unless
\* every probe path is unavailable: smartctl absent or inconclusive and no
\* sysfs entry for the device; when no probe gives a signal the status is OK.
C16_AsStated ==
    Resolved /\ is_none(Out.result.smart_status) => ~SysfsEntry

\* the first smartctl run of the call, when its output was accepted
FirstRun == Trace # <<>> /\ starts_with(Trace[1].probe, "smartctl")
FirstAccepted == Called /\ FirstRun /\ accepted(SmartctlOutput(1))
FirstLines == [i \in 1..Len(SmartctlOutput(1).lines) |-> trim(SmartctlOutput(1).lines[i])]

SelfAssessment(line) == contains(line, "SMART overall-health self-assessment test result:")
HealthStatus(line) == contains(line, "SMART Health Status:")
HealthLines == {i \in 1..Len(FirstLines) : SelfAssessment(FirstLines[i]) \/ HealthStatus(FirstLines[i])}
LastHealthLine == FirstLines[CHOOSE i \in HealthLines : \A j \in HealthLines : j <= i]

\* what a health line says; a line with both texts is read as the second
Verdict(line) ==
    IF HealthStatus(line)
       THEN IF contains(line, "OK") THEN "OK" ELSE "WARNING"
    ELSE IF contains(line, "PASSED") THEN "OK"
    ELSE IF contains(line, "FAILED") THEN "FAILING"
    ELSE "WARNING"

ModelOrSerial(line) ==
    \/ starts_with(line, "Device Model:") \/ starts_with(line, "Model Number:")
    \/ starts_with(line, "Serial Number:")
    \/ host.os = "linux" /\ starts_with(line, "Device:")

Attribute(line) ==
    \E name \in {"Power_On_Hours", "Reallocated_Sector_Ct", "Temperature_Celsius",
                 "Current_Pending_Sector", "Offline_Uncorrectable"} :
        contains(line, name) /\ is_some(parse_i64(after_colon(line)))

ReadableData(line) ==
    ModelOrSerial(line) \/ starts_with(line, "Vendor:") \/ starts_with(line, "Device:")
        \/ Attribute(line)

\* the call returned after its first smartctl run, with this status
StageReturns(status) ==
    /\ Len(Trace) = 1
    /\ Out.result.smart_status = Some(status)

\* the first run was inconclusive: it left no status and another probe ran
StageInconclusive == Len(Trace) > 1 /\ is_none(Trace[1].smart_status)

\* C17 as stated: readable data of any kind, attributes included, without a
\* health line gives OK
C17_AsStated ==
    FirstAccepted =>
        IF HealthLines # {} THEN StageReturns(Verdict(LastHealthLine))
        ELSE IF \E i \in 1..Len(FirstLines) : ReadableData(FirstLines[i])
           THEN StageReturns("OK")
        ELSE StageInconclusive

\* C17: for every accepted smartctl output the last health line decides: a
\* self-assessment line gives OK with PASSED, FAILING with FAILED, WARNING
\* otherwise, and a "SMART Health Status:" line gives OK with OK, WARNING
\* otherwise; without a health line a model or serial number gives OK; with
\* neither (nothing recognized, or only a vendor or attribute values) the run
\* is inconclusive and the next probe runs.
C17_Classification ==
    FirstAccepted =>
        IF HealthLines # {} THEN StageReturns(Verdict(LastHealthLine))
        ELSE IF \E i \in 1..Len(FirstLines) : ModelOrSerial(FirstLines[i])
           THEN StageReturns("OK")
        ELSE StageInconclusive

\* an accepted output with attribute values only was inconclusive
C17_Witness ==
    /\ FirstAccepted
    /\ HealthLines = {}
    /\ \E i \in 1..Len(FirstLines) : Attribute(FirstLines[i])
    /\ StageInconclusive

RECURSIVE StripDigits(_)
\* s without the digits at its end
StripDigits(s) ==
    IF s # "" /\ char_at(s, Len(s)) \in Digits
       THEN StripDigits(SubSeq(s, 1, Len(s) - 1)) ELSE s

\* name without a partition suffix "p<digits>" that follows a digit
StripPartition(name) ==
    LET head == StripDigits(name)
    IN IF /\ head # name /\ Len(head) >= 2
          /\ char_at(head, Len(head)) = "p"
          /\ char_at(head, Len(head) - 1) \in Digits
          THEN SubSeq(head, 1, Len(head) - 1) ELSE name

\* the base device of the specification
ExpectedBase(device_name) ==
    LET name == last(split(device_name, "/"))
    IN IF starts_with(name, "mmcblk") \/ starts_with(name, "nvme")
          THEN "/dev/" \o StripPartition(name)
       ELSE IF starts_with(name, "sd") \/ starts_with(name, "hd")
          THEN "/dev/" \o StripDigits(name)
       ELSE device_name

\* C18: the base device is the device without its partition suffix for the
\* families sd, hd, mmcblk (mmcblkNpM gives mmcblkN for every N) and nvme;
\* other names pass through unchanged, and a base device is its own base.
C18_AsStated ==
    Resolved =>
       /\ device_base(Out.device[1]) = ExpectedBase(Out.device[1])
       /\ device_base(ExpectedBase(Out.device[1])) = ExpectedBase(Out.device[1])

\* the part of C18 the code keeps: every family but mmcblk
C18_OtherFamilies ==
    Resolved /\ ~contains(Out.device[1], "mmcblk") =>
       /\ device_base(Out.device[1]) = ExpectedBase(Out.device[1])
       /\ device_base(ExpectedBase(Out.device[1])) = ExpectedBase(Out.device[1])

-----------------------------------------------------------------------------
(* The resolver behind the collector *)

\* the probe of unit i has returned
UnitProbed(i) == probe[i] = "done" /\ is_some(probe_ret[i])

\* the entry of the mount table for the mount point of unit i
MountEntry(i) == resolve_device(host, disk_candidates[i].mount_point)

\* C19: on Unix-like hosts a candidate whose mount point has an entry in the
\* mount table with a source under /dev/ resolves to that source device.
C19_AsStated ==
    \A i \in Units :
        UnitProbed(i) /\ is_some(MountEntry(i)) =>
            /\ smart_call(host, smart_input_of(host, disk_candidates[i])).device = MountEntry(i)
            /\ probe_ret[i][1].health_method # "unknown"

\* what the code does instead: the probe is given the device name, which is
\* the mount point of no entry, and every volume is unresolved
C19_NeverResolved ==
    \A i \in Units :
        UnitProbed(i) => probe_ret[i][1] = EmptyTuple("unknown")

-----------------------------------------------------------------------------
(* The RAID flag and the method are advisory *)

Methods == {"smartmontools", "WMI", "kernel"}

\* the lists that differ from ds only in RAID flags and in the methods of the
\* volumes that were probed
Relabelled(ds) ==
    {[i \in 1..Len(ds) |->
        [ds[i] EXCEPT !.is_raid = r[i],
                      !.health_method = IF @ \in Methods THEN m[i] ELSE @]] :
        r \in [1..Len(ds) -> BOOLEAN], m \in [1..Len(ds) -> Methods]}

\* a call sets the flag exactly for a resolved device with "md" or "dm-" in
\* its path
RaidFlag ==
    Called =>
        (Out.result.is_raid <=>
            /\ is_some(Out.device)
            /\ contains(Out.device[1], "md") \/ contains(Out.device[1], "dm-"))

\* what main made of the list is what it makes of every relabelled list
SameOutcome(ds2) ==
    /\ \A i \in 1..Len(disks) :
          /\ ds2[i].smart_status = disks[i].smart_status
          /\ status_indicator(ds2[i]) = status_indicator(disks[i])
    /\ low_space_disks(ds2) = low_space_disks(disks)
    /\ smart_failing_disks(ds2) = smart_failing_disks(disks)
    /\ unknown_smart_disks(ds2) = unknown_smart_disks(disks)
    /\ DecisionReached /\ ~Forced => (Sent <=> problem_disks(ds2) # <<>>)
    /\ is_some(mail_body) => mail_body[1] = ReportBody(ds2, cli.force_mail)
    /\ is_some(json_alerts) => json_alerts[1] = JsonAlerts(ds2, 1)

\* C20: the RAID flag is set exactly when the resolved device path contains
\* "md" or "dm-"; and the flag and the method are advisory: statuses,
\* indicators, summary counts and the decision to send are the same for every
\* list that differs only in RAID flags or methods.
C20_Advisory ==
    /\ RaidFlag
    /\ pc = "done" /\ host = None => \A ds2 \in Relabelled(disks) : SameOutcome(ds2)

\* main decided to send nothing for a list with a volume flagged as RAID
C20_Witness ==
    /\ DecisionReached /\ ~Forced /\ ~Sent
    /\ \E i \in 1..Len(disks) : disks[i].is_raid

-----------------------------------------------------------------------------
(* The enumeration *)

Enumerated == is_some(platform) /\ pc # "enumerate"

Os == platform[1]

Listed == 1..Len(sysinfo_disks)

\* volume i got past the removable/network and the capacity filters
Passes(i) ==
    /\ is_some(sysinfo_disks[i].mount_point)
    /\ ~removable_or_network(Os, sysinfo_disks[i].mount_point[1])
    /\ sysinfo_disks[i].total_space # 0

Label(i) == display_name(Os, sysinfo_disks[i].mount_point[1])

\* entry e of the exclusion list matches volume i, by the rule of the platform
EntryMatches(i, e) ==
    /\ trim(excluded_disks[e]) # ""
    /\ IF Os = "windows"
          THEN contains(to_uppercase(Label(i)), to_uppercase(trim(excluded_disks[e])))
          ELSE sysinfo_disks[i].name = Some(trim(excluded_disks[e]))

Dropped(i) == \E e \in 1..Len(excluded_disks) : EntryMatches(i, e)

\* the listed volumes that are kept, in the order listed
Kept == SeqFilterIdx(sysinfo_disks, [i \in Listed |-> Passes(i) /\ ~Dropped(i)], 1)

(* C21: a volume that got past the filters is a candidate exactly when no
   exclusion entry matches it: on Windows an entry matches when the upper-cased
   display name contains the upper-cased trimmed entry, elsewhere when the
   trimmed entry equals the device name; blank entries match nothing. *)
C21_ExclusionMatching ==
    Enumerated =>
        /\ Len(disk_candidates) = Len(Kept)
        /\ \A k \in 1..Len(Kept) :
              /\ Some(disk_candidates[k].mount_point) = sysinfo_disks[Kept[k]].mount_point
              /\ disk_candidates[k].disk_name = unwrap_or(sysinfo_disks[Kept[k]].name, "")
              /\ disk_candidates[k].display_name = Label(Kept[k])

\* "sda" leaves /dev/sda1 a candidate while " /dev/sdb1 " drops /dev/sdb1
C21_Witness ==
    /\ Enumerated
    /\ Os = "linux"
    /\ excluded_disks = <<"sda", " /dev/sdb1 ">>
    /\ \E i, j \in Listed :
          /\ sysinfo_disks[i].name = Some("/dev/sda1")
          /\ sysinfo_disks[j].name = Some("/dev/sdb1")
    /\ Len(disk_candidates) = 1
    /\ disk_candidates[1].disk_name = "/dev/sda1"

Entries == 1..Len(excluded_disks)

\* entry e is named in the warning
ReportedNotFound(e) ==
    \E k \in 1..Len(excluded_not_found[1]) : excluded_not_found[1][k] = excluded_disks[e]

\* entry e matches a volume that reached the exclusion test
MatchesSome(e) == \E i \in Listed : Passes(i) /\ EntryMatches(i, e)

(* C22: an exclusion entry is named in the not-found warning exactly when it
   matches no enumerated volume. *)
C22_AsStated ==
    Enumerated => \A e \in Entries : ReportedNotFound(e) <=> ~MatchesSome(e)

InRange(p) == p.den > 0 /\ p.num >= 0 /\ p.num <= 100 * p.den

Sound(d) ==
    /\ d.total_space > 0
    /\ InRange(d.free_space_percent)
    /\ ~removable_or_network(Os, d.mount_point)

(* C23: every candidate, every record get_monitored_disks returns and every
   record of a report has a capacity above zero, a free-space percentage
   within [0, 100] and a mount point that is neither removable nor network
   media. *)
C23_SoundCandidates ==
    Enumerated =>
        /\ \A k \in 1..Len(disk_candidates) : Sound(disk_candidates[k])
        /\ \A k \in 1..Len(disks) : Sound(disks[k])
        /\ \A c \in 1..Len(report_calls) :
              \A k \in 1..Len(report_calls[c].disks) : Sound(report_calls[c].disks[k])

\* a volume of capacity zero was listed next to a full one, and the report
\* about the full one went out
C23_Witness ==
    /\ Enumerated
    /\ \E i \in Listed : sysinfo_disks[i].total_space = 0
    /\ Len(disk_candidates) = 1
    /\ Len(report_calls) = 1
    /\ Len(report_calls[1].disks) = 1
    /\ report_calls[1].disks[1].free_space_percent.num = 0

\* entry e has the form validate_config accepts on Windows: two characters,
\* the second a colon
DriveLetterEntry(e) == Len(excluded_disks[e]) = 2 /\ char_at(excluded_disks[e], 2) = ":"

OnDrive(mount_point, e) == starts_with(to_uppercase(mount_point), to_uppercase(excluded_disks[e]))

(* C30: on Windows an entry "X:" keeps every volume mounted on drive X out of
   the candidates, and is not named in the warning when such a volume was
   listed. *)
C30_AsStated ==
    (Enumerated /\ Os = "windows") =>
        \A e \in Entries :
            DriveLetterEntry(e) =>
                /\ \A k \in 1..Len(disk_candidates) :
                      ~OnDrive(disk_candidates[k].mount_point, e)
                /\ (\E i \in Listed : Passes(i) /\ OnDrive(sysinfo_disks[i].mount_point[1], e))
                      => ~ReportedNotFound(e)

-----------------------------------------------------------------------------
(* The summary of the report *)

Body == mail_body[1]

\* the list the report was written from
Summarised == report_calls[Len(report_calls)].disks

Records == 1..Len(Summarised)

(* C24: the four counts of the summary are functions of the list handed to
   send_system_report: its length, the records below the threshold, the
   records with status FAILING or WARNING, and the records with no status; no
   record with unknown status is counted as failing, and the low-space count
   is the number of "[LOW SPACE]" indicators. *)
C24_SummaryDerived ==
    is_some(mail_body) =>
        /\ Body.total_disks = Len(Summarised)
        /\ Body.low_space_disks = Cardinality({i \in Records : Below(Summarised[i])})
        /\ Body.smart_failing_disks = Cardinality({i \in Records : FailOrWarn(Summarised[i])})
        /\ Body.unknown_smart_disks = Cardinality({i \in Records : Unknown(Summarised[i])})
        /\ Body.smart_failing_disks + Body.unknown_smart_disks <= Body.total_disks
        /\ Body.low_space_disks =
              Cardinality({i \in Records : Body.indicators[i] = "[LOW SPACE]"})

\* a report about a volume with unknown status next to a failing one that is
\* also low on space
C24_Witness ==
    /\ is_some(mail_body)
    /\ Len(Summarised) = 2
    /\ Body.unknown_smart_disks = 1
    /\ Body.smart_failing_disks = 1
    /\ Body.low_space_disks = 1
    /\ \E i \in Records : Below(Summarised[i]) /\ FailOrWarn(Summarised[i])

-----------------------------------------------------------------------------
(* Modes and switches of main *)

(* C26: with smart_enabled = false, a run that is neither forced nor in debug
   mode sends a report exactly when some volume is below the threshold,
   whatever the statuses and the alert-on-unknown flag are. *)
C26_SmartAlertsOff ==
    (DecisionReached /\ ~Forced /\ ~DebugOn /\ ~SmartAlertsOn) => (Sent <=> AnyBelow)

\* smart alerts off, alert-on-unknown on, a failing volume and one with no
\* status, none below the threshold: nothing is sent
C26_Witness ==
    /\ DecisionReached /\ ~Forced /\ ~DebugOn /\ ~SmartAlertsOn
    /\ UnknownOn
    /\ AnyFailOrWarn
    /\ AnyUnknown
    /\ ~AnyBelow
    /\ ~Sent

\* main took the JSON branch or the SMART display branch
DisplayMode == disks # <<>> /\ (cli.json \/ cli.smart)

(* C27: in JSON mode and in SMART display mode send_system_report is never
   called and no message is built, also with forced mail, debug mode or a
   volume below the threshold; the run ends with exit status 0. *)
C27_DisplayModesSendNothing ==
    DisplayMode =>
        /\ report_calls = <<>>
        /\ mail_body = None
        /\ pc = "done" => exit_code = Some(0)

\* a JSON run with forced mail and debug mode and a volume below the
\* threshold has ended
C27_Witness ==
    /\ DisplayMode
    /\ pc = "done"
    /\ cli.json /\ cli.force_mail
    /\ DebugOn
    /\ AnyBelow
    /\ is_some(json_alerts)
    /\ report_calls = <<>>

(* C28: with mail_enabled = false a call of send_system_report builds no
   message and makes no delivery attempt, whatever the transport would do, and
   returns Ok: the run ends with exit status 0, never 2. *)
C28_MailDisabled ==
    ~cfg.mail_enabled =>
        /\ mail_body = None
        /\ attempt = 0 /\ smtp_log = <<>> /\ smtp_result = None
        /\ (pc = "done" /\ Sent) => exit_code = Some(0)

\* the alert fired with mail disabled
C28_Witness ==
    /\ ~cfg.mail_enabled
    /\ pc = "done"
    /\ ~Forced
    /\ Sent
    /\ AnyBelow
    /\ exit_code = Some(0)

-----------------------------------------------------------------------------
(* The settings main works with *)

\* load_config returned Ok and main holds its value
ConfigLoaded == pc # "load" /\ cfg # None

\* the rules of validate_config
Valid(c) ==
    /\ c.smtp_server # ""
    /\ c.email_from # "" /\ contains(c.email_from, "@")
    /\ recipients(c.email_to) # {}
    /\ \A a \in recipients(c.email_to) : contains(a, "@")
    /\ c.smtp_port # 0
    /\ is_some(c.threshold_percent) =>
          c.threshold_percent[1] >= 1 /\ c.threshold_percent[1] <= 100
    /\ is_some(c.smtp_security) =>
          to_lowercase(c.smtp_security[1]) \in {"none", "starttls", "ssl"}

(* C29: every Config load_config returns as Ok satisfies the rules of
   validate_config, for every file content and every setting of the
   DISKMON_* variables. *)
C29_AsStated == ConfigLoaded => Valid(cfg)

-----------------------------------------------------------------------------
(* The generic kernel stage *)

\* the call ended in the generic kernel stage
GenericStage == Resolved /\ Out.result.health_method = "kernel" /\ Rank(Producer) >= 5

ShortName == last(split(device_base(Out.device[1]), "/"))

AttributeFile == read_to_string(host, "/sys/block/" \o ShortName \o "/device/smart_attributes")

FailureMarker ==
    /\ is_some(AttributeFile)
    /\ \E i \in 1..Len(AttributeFile[1]) :
          \/ contains(AttributeFile[1][i], "FAILING_NOW")
          \/ contains(AttributeFile[1][i], "Pre-fail")

StatFile == read_to_string(host, "/sys/block/" \o ShortName \o "/stat")

\* the counter the stage reads from the device's stat file
StatCounter ==
    IF is_some(StatFile) /\ StatFile[1] # <<>> /\ Len(split_whitespace(StatFile[1][1])) >= 4
       THEN parse_u64(split_whitespace(StatFile[1][1])[4])
       ELSE None

(* C25: when the generic kernel stage runs for a device whose sysfs entry
   exists, it ends with a status: FAILING when the attribute file holds a
   failure marker, otherwise WARNING or OK by the counter of the stat file
   when that is readable. *)
C25_AsStated ==
    (GenericStage /\ SysfsEntry) =>
        /\ is_some(Out.result.smart_status)
        /\ FailureMarker => Out.result.smart_status = Some("FAILING")
        /\ (~FailureMarker /\ is_some(StatCounter)) =>
              Out.result.smart_status =
                 IF StatCounter[1] > 0 THEN Some("WARNING") ELSE Some("OK")

====
